---- MODULE Spec2Model ----
(***************************************************************************)
(* Sharks news aggregator: the ingestion-and-clustering pipeline.          *)
(*                                                                         *)
(* The database tables are sets of rows; a Celery worker is a record with  *)
(* a program counter and the locals of the task it runs; the broker is the *)
(* set of fetch tasks and the bag of enrich messages.  Every commit of the *)
(* code is the point where an action writes the tables; what a task read   *)
(* before its commit is kept in the worker's locals (the ORM session).     *)
(***************************************************************************)
EXTENDS Integers, Sequences, FiniteSets, TLC

(***************************************************************************)
(* Bounds of the model.                                                    *)
(***************************************************************************)
MaxBeats == 2        \* scheduler ticks (ingest_all_sources runs)
MaxFetchBeats == 1   \* scheduler ticks where fetches fail and are retried
MaxFeedLen == 2      \* entries of one fetched feed
MaxRawItems == 3     \* rows the raw_items table may hold
MaxClock == 2        \* clock advances
MaxSubmissions == 1  \* POST /submit/link requests
StartTime == 1000    \* utcnow() of the initial state, in hours
MaxRequests == 12    \* POST /submit/link requests served by concurrent processes
MaxEntityId == 6     \* last id the entities sequence may hand out

(***************************************************************************)
(* Program constants.                                                      *)
(***************************************************************************)
max_retries == 3             \* ingest_source: @celery.task(max_retries=3)
RetryBase == 60              \* countdown = 60 * 2 ** retries
PurgeHours == 720            \* timedelta(days=30)

NoneT == -1                  \* a NULL timestamp / NULL integer column
NoneS == ""                  \* a NULL string (no input of the model is empty)

Range(s) == {s[i] : i \in DOMAIN s}

RECURSIVE Pow2(_)
Pow2(n) == IF n = 0 THEN 1 ELSE 2 * Pow2(n - 1)

(***************************************************************************)
(* URLs.  A URL is what urlparse makes of it: scheme+netloc+path (base),   *)
(* the query as a sequence of <<key, value>> pairs, and the fragment.      *)
(***************************************************************************)
Url(b, q, f) == [base |-> b, query |-> q, frag |-> f]

NoUrl == Url("", <<>>, "")

tracking_params ==
    {"utm_source", "utm_medium", "utm_campaign", "utm_content", "utm_term",
     "ref", "fbclid"}

\* parse_qs: a dict key -> list of values, keys in first-occurrence order,
\* pairs with a blank value dropped.
RECURSIVE QueryKeys(_)
QueryKeys(q) ==
    IF q = <<>> THEN <<>>
    ELSE LET rest == QueryKeys(Tail(q))
             k == Head(q)[1]
         IN  IF Head(q)[2] = "" THEN rest
             ELSE <<k>> \o SelectSeq(rest, LAMBDA x : x # k)

RECURSIVE ValuesOf(_, _)
ValuesOf(q, k) ==
    IF q = <<>> THEN <<>>
    ELSE IF Head(q)[1] = k /\ Head(q)[2] # ""
         THEN <<Head(q)>> \o ValuesOf(Tail(q), k)
         ELSE ValuesOf(Tail(q), k)

\* urlencode(cleaned_params, doseq=True): key by key, every value of the key.
RECURSIVE EncodeKeys(_, _)
EncodeKeys(keys, q) ==
    IF keys = <<>> THEN <<>>
    ELSE ValuesOf(q, Head(keys)) \o EncodeKeys(Tail(keys), q)

normalize_url(url) ==
    LET cleaned == SelectSeq(QueryKeys(url.query),
                             LAMBDA k : k \notin tracking_params)
    IN  Url(url.base, EncodeKeys(cleaned, url.query), "")

\* hashlib.sha256(f"{source_id}:{canonical_url}:{raw_title or ''}"): the
\* digest is modelled by its preimage (no collisions).
IngestHash(source_id, canonical_url, raw_title) ==
    <<source_id, canonical_url, raw_title>>

(***************************************************************************)
(* Text.  A text is a string; TLC's Len, SubSeq and \o work on strings.    *)
(***************************************************************************)
Char(s, i) == SubSeq(s, i, i)

\* Python's `kw in text`.
Contains(text, kw) ==
    \E i \in 1..(Len(text) - Len(kw) + 1) : SubSeq(text, i, i + Len(kw) - 1) = kw

UpperToLower ==
    [c \in {"A", "B", "C", "D", "E", "F", "G", "H", "I", "J", "K", "L", "M",
            "N", "O", "P", "Q", "R", "S", "T", "U", "V", "W", "X", "Y", "Z"} |->
        CASE c = "A" -> "a" [] c = "B" -> "b" [] c = "C" -> "c" [] c = "D" -> "d"
          [] c = "E" -> "e" [] c = "F" -> "f" [] c = "G" -> "g" [] c = "H" -> "h"
          [] c = "I" -> "i" [] c = "J" -> "j" [] c = "K" -> "k" [] c = "L" -> "l"
          [] c = "M" -> "m" [] c = "N" -> "n" [] c = "O" -> "o" [] c = "P" -> "p"
          [] c = "Q" -> "q" [] c = "R" -> "r" [] c = "S" -> "s" [] c = "T" -> "t"
          [] c = "U" -> "u" [] c = "V" -> "v" [] c = "W" -> "w" [] c = "X" -> "x"
          [] c = "Y" -> "y" [] c = "Z" -> "z"]

RECURSIVE Lower(_)
Lower(s) ==
    IF Len(s) = 0 THEN ""
    ELSE LET c == Char(s, 1)
         IN  (IF c \in DOMAIN UpperToLower THEN UpperToLower[c] ELSE c)
             \o Lower(SubSeq(s, 2, Len(s)))

WordChars ==
    {"a", "b", "c", "d", "e", "f", "g", "h", "i", "j", "k", "l", "m", "n", "o",
     "p", "q", "r", "s", "t", "u", "v", "w", "x", "y", "z", "0", "1", "2", "3",
     "4", "5", "6", "7", "8", "9", "_"} \cup DOMAIN UpperToLower

\* The stop words of nltk's English list that the texts of the model can hold.
stop_words ==
    {"the", "and", "for", "with", "from", "not", "has", "was", "are", "but",
     "why", "should", "after", "into", "over", "his", "her", "its", "their"}

\* re.sub(r'[^\w\s]', ' ', text.lower()) and word_tokenize: the maximal runs
\* of word characters, in order.
RECURSIVE SplitWords(_, _)
SplitWords(s, cur) ==
    IF Len(s) = 0 THEN (IF cur = "" THEN <<>> ELSE <<cur>>)
    ELSE LET c == Char(s, 1)
             rest == SubSeq(s, 2, Len(s))
         IN  IF c \in WordChars THEN SplitWords(rest, cur \o c)
             ELSE (IF cur = "" THEN <<>> ELSE <<cur>>) \o SplitWords(rest, "")

normalize_tokens(text) ==
    SelectSeq(SplitWords(Lower(text), ""),
              LAMBDA t : t \notin stop_words /\ Len(t) > 2)

BoundaryChars == {" ", ",", ".", ":", ";", "!", "?", "'", "\"", "(", ")"}

\* re.search(r'(?:^|[\s,.:;!?\'"()])' + re.escape(term) + r'(?:[\s,.:;!?\'"()]|$)')
word_boundary_match(term, text) ==
    \E i \in 1..(Len(text) - Len(term) + 1) :
        /\ SubSeq(text, i, i + Len(term) - 1) = term
        /\ (i = 1 \/ Char(text, i - 1) \in BoundaryChars)
        /\ (i + Len(term) - 1 = Len(text) \/ Char(text, i + Len(term)) \in BoundaryChars)

has_sharks_context(text_lower) ==
    \E kw \in {"sharks", "sj sharks", "san jose", "barracuda", "sap center"} :
        Contains(text_lower, kw)

COMMON_WORD_NAMES ==
    {"white", "brown", "green", "black", "gray", "grey", "young", "king",
     "cook", "hill", "wood", "stone", "rice", "rose", "wolf", "fox",
     "burns", "powers", "waters", "fields", "banks", "cross", "church",
     "price", "best", "land", "day", "long", "strong", "power", "chase",
     "smith", "johnson", "jones", "miller", "wilson", "moore", "taylor"}

\* str.split(): the maximal runs of non-blank characters.
RECURSIVE SplitBlank(_, _)
SplitBlank(s, cur) ==
    IF Len(s) = 0 THEN (IF cur = "" THEN <<>> ELSE <<cur>>)
    ELSE LET c == Char(s, 1)
             rest == SubSeq(s, 2, Len(s))
         IN  IF c # " " THEN SplitBlank(rest, cur \o c)
             ELSE (IF cur = "" THEN <<>> ELSE <<cur>>) \o SplitBlank(rest, "")

\* entity.name.split()[-1]
LastWord(name) ==
    LET ws == SplitBlank(name, "") IN IF ws = <<>> THEN "" ELSE ws[Len(ws)]

\* Sort a finite set of integers into an ascending sequence.
RECURSIVE SortedSeq(_)
SortedSeq(S) ==
    IF S = {} THEN <<>>
    ELSE LET m == CHOOSE x \in S : \A y \in S : x <= y
         IN  <<m>> \o SortedSeq(S \ {m})

\* The Entity rows (db.query(Entity).all(), in id order).
FullMatch(ents, text_lower) ==
    {e.id : e \in {x \in ents : word_boundary_match(Lower(x.name), text_lower)}}

LastNameMatch(ents, text_lower) ==
    {e.id : e \in {x \in ents :
        /\ ~word_boundary_match(Lower(x.name), text_lower)
        /\ Contains(x.name, " ")
        /\ Lower(LastWord(x.name)) \notin COMMON_WORD_NAMES
        /\ Len(LastWord(x.name)) >= 5
        /\ word_boundary_match(Lower(LastWord(x.name)), text_lower)}}

extract_entities_nogate(ents, text) ==
    SortedSeq(FullMatch(ents, Lower(text)))
    \o SortedSeq(LastNameMatch(ents, Lower(text)))

extract_entities(ents, text) ==
    LET text_lower == Lower(text)
    IN  IF has_sharks_context(text_lower)
        THEN SortedSeq(FullMatch(ents, text_lower))
             \o SortedSeq(LastNameMatch(ents, text_lower))
        ELSE SortedSeq(FullMatch(ents, text_lower))

filter_team_entities(ents, entity_ids) ==
    SortedSeq({e.id : e \in {x \in ents :
        x.id \in Range(entity_ids) /\ x.entity_type # "team"}})

check_sharks_relevance_anyentity(ents, title, entity_ids) ==
    \/ \E kw \in {"sharks", "sj sharks", "barracuda", "sap center"} :
           Contains(Lower(title), kw)
    \/ entity_ids # <<>>

check_sharks_relevance(ents, title, entity_ids) ==
    \/ \E kw \in {"sharks", "sj sharks", "barracuda", "sap center"} :
           Contains(Lower(title), kw)
    \/ filter_team_entities(ents, entity_ids) # <<>>

(***************************************************************************)
(* Event classification: keyword hit counts per category; max() returns    *)
(* the first category, in dictionary order, with the highest count.        *)
(***************************************************************************)
EventOrder ==
    <<"trade", "injury", "lineup", "recall", "waiver", "signing", "prospect",
      "game", "opinion">>

event_keywords ==
    [trade |-> {"trade", "traded", "acquire", "acquired", "dealt"},
     injury |-> {"injury", "injured", "injured reserve", "day-to-day",
                 "out indefinitely", "week-to-week"},
     lineup |-> {"lineup", "lines", "starting", "scratched", "scratch"},
     recall |-> {"recall", "recalled", "call up", "called up", "promote"},
     waiver |-> {"waiver", "waivers", "claimed", "claim"},
     signing |-> {"sign", "signed", "contract", "extension", "agree to terms"},
     prospect |-> {"prospect", "draft", "drafted", "junior", "development"},
     game |-> {"game", "win", "loss", "score", "final", "vs", "defeat", "beat",
               "period", "goal", "assist", "shutout", "overtime", "recap"},
     opinion |-> {"think", "believe", "opinion", "analysis", "why", "should"}]

count_event_keyword_matches(text_lower) ==
    [ev \in Range(EventOrder) |->
        Cardinality({kw \in event_keywords[ev] : Contains(text_lower, kw)})]

classify_event_type(text) ==
    LET scores == count_event_keyword_matches(Lower(text))
        best == CHOOSE i \in 1..Len(EventOrder) :
                    /\ \A j \in 1..Len(EventOrder) :
                           scores[EventOrder[j]] <= scores[EventOrder[i]]
                    /\ \A j \in 1..(i - 1) :
                           scores[EventOrder[j]] < scores[EventOrder[i]]
    IN  IF \A ev \in Range(EventOrder) : scores[ev] = 0 THEN "other"
        ELSE EventOrder[best]

event_tag_map ==
    [trade |-> "Trade", injury |-> "Injury", lineup |-> "Lineup",
     recall |-> "Recall", waiver |-> "Waiver", signing |-> "Signing",
     prospect |-> "Prospect", game |-> "Game"]

rumor_phrases ==
    {"hearing", "sources say", "linked to", "in talks", "rumor", "reportedly"}

\* The tag names of a variant (title, url) from a source of a category.
classify_tags(title, url, category) ==
    LET text_lower == Lower(title)
        scores == count_event_keyword_matches(text_lower)
    IN  {event_tag_map[ev] : ev \in {k \in DOMAIN event_tag_map : scores[k] > 0}}
        \cup (IF Contains(text_lower, "barracuda")
                 \/ Contains(Lower(url.base), "sjbarracuda")
              THEN {"Barracuda"} ELSE {})
        \cup (IF category = "press"
                 /\ \E p \in rumor_phrases : Contains(text_lower, p)
              THEN {"Rumors"} ELSE {})
        \cup (IF category = "official" THEN {"Official"} ELSE {})


(***************************************************************************)
(* The world outside: the feeds the sources serve and the roster.          *)
(***************************************************************************)
Workers == {"w1", "w2"}

\* The processes that serve the FastAPI application.
ApiProcesses == {"p1", "p2"}

UrlA == "https://ex.com/a"
UrlB == "https://ex.com/b"
UrlC == "https://ex.com/c"

TitleSign == "Sharks sign Jane Doe"
TitleSigned == "Jane Doe signed by Sharks"
TitleOther == "Standings update"
TitleTeam == "Sharks win home opener"

Entry(id, link, title, published) ==
    [id |-> id, link |-> link, title |-> title, summary |-> NoneS,
     published |-> published]

\* Two deliveries of one entry that differ in tracking parameters only.
EntryA1 == Entry("g1", Url(UrlA, <<<<"utm_source", "x">>>>, ""), TitleSign, StartTime - 1)
EntryA2 ==
    Entry("g1", Url(UrlA, <<<<"utm_source", "x">>, <<"utm_medium", "y">>>>, ""),
          TitleSign, StartTime - 1)
\* An entry without a guid, delivered with two campaign ids and a fragment;
\* it is dated after the start of the run.
EntryB1 == Entry(NoneS, Url(UrlB, <<<<"utm_id", "7">>>>, ""), TitleSigned, StartTime + 1)
EntryB2 == Entry(NoneS, Url(UrlB, <<<<"utm_id", "8">>>>, "top"), TitleSigned, StartTime + 1)
\* An off-topic entry without a date, and an entry without a link.
EntryC == Entry("g3", Url(UrlC, <<>>, ""), TitleOther, NoneT)
EntryNoLink == Entry("g4", NoUrl, TitleSign, NoneT)

\* An off-topic entry whose description carries the team name (site chrome).
SummaryTeam == "San Jose Sharks news, scores and standings"
EntryTeamOnly ==
    [Entry("g5", Url(UrlC, <<>>, ""), TitleOther, NoneT) EXCEPT !.summary = SummaryTeam]

\* An entry whose summary holds more event keywords than its title.
SummaryGame == "Doe scored the overtime goal in the final game of last season"
EntrySummary ==
    [Entry("g8", Url(UrlB, <<>>, ""), TitleSign, StartTime - 1) EXCEPT !.summary = SummaryGame]

\* Two reports of one game that name the team and no player.
EntryD1 == Entry("g6", Url(UrlC, <<<<"p", "1">>>>, ""), TitleTeam, StartTime - 1)
EntryD2 == Entry("g7", Url(UrlC, <<<<"p", "2">>>>, ""), TitleTeam, StartTime - 1)

Entries == {EntryA1, EntryA2, EntryB1, EntryB2, EntryC, EntryNoLink}

SeqsUpTo(S, n) == UNION {[1..k -> S] : k \in 1..n}

\* The entities table (db.query(Entity).all()) as the seed script loads it:
\* two players, the team and a coach.  Enrichment reads this table; the
\* roster sync rewrites the table entity_table, which starts as this one.
entities ==
    {[id |-> 1, name |-> "Jane Doe", entity_type |-> "player"],
     [id |-> 2, name |-> "Jeff Skinner", entity_type |-> "player"],
     [id |-> 3, name |-> "San Jose Sharks", entity_type |-> "team"],
     [id |-> 4, name |-> "Ryan Warsofsky", entity_type |-> "coach"]}

SourceStatuses == {"candidate", "queued_for_review", "approved", "rejected"}
IngestMethods == {"rss", "html", "api", "reddit", "twitter"}

Titles == {TitleSign, TitleSigned, TitleOther}
Categories == {"official", "press", "other"}

\* Steps 1 to 3 of enrich_raw_item on a raw item's title and description.
Analyse(raw_title, raw_description) ==
    LET text == raw_title \o " " \o raw_description
        entity_ids == extract_entities(entities, text)
    IN  [tokens |-> normalize_tokens(text), entity_ids |-> entity_ids,
         relevant |-> check_sharks_relevance(entities, raw_title, entity_ids),
         event_type |-> classify_event_type(text)]

\* The analyses and the tags of the texts of the model, tabulated once.
RECURSIVE TabulateTexts(_)
TabulateTexts(S) ==
    IF S = {} THEN <<>>
    ELSE LET p == CHOOSE x \in S : TRUE
         IN  (p :> Analyse(p[1], p[2])) @@ TabulateTexts(S \ {p})

RECURSIVE TabulateTags(_)
TabulateTags(S) ==
    IF S = {} THEN <<>>
    ELSE LET p == CHOOSE x \in S : TRUE
         IN  (p :> classify_tags(p[1], Url(p[2], <<>>, ""), p[3]))
             @@ TabulateTags(S \ {p})

KnownTexts ==
    TabulateTexts((Titles \X {NoneS})
                      \cup {<<TitleOther, SummaryTeam>>, <<TitleTeam, NoneS>>,
                            <<TitleSign, SummaryGame>>})

KnownTags == TabulateTags(Titles \X {UrlA, UrlB, UrlC} \X Categories)

Enrichment(raw_title, raw_description) ==
    IF <<raw_title, raw_description>> \in DOMAIN KnownTexts
    THEN KnownTexts[<<raw_title, raw_description>>]
    ELSE Analyse(raw_title, raw_description)

TagsOf(title, url, category) ==
    IF <<title, url.base, category>> \in DOMAIN KnownTags
    THEN KnownTags[<<title, url.base, category>>]
    ELSE classify_tags(title, url, category)

(***************************************************************************)
(* State.                                                                  *)
(***************************************************************************)
VARIABLES
    now,               \* datetime.utcnow(), in hours
    ticks,             \* clock advances so far
    beats,             \* ingest_all_sources runs so far
    sources,           \* table sources: id -> row
    raw_items,         \* table raw_items
    story_variants,    \* table story_variants
    clusters,          \* table clusters
    cluster_variants,  \* table cluster_variants
    cluster_entities,  \* table cluster_entities: <<cluster_id, entity_id>>
    cluster_tags,      \* table cluster_tags: <<cluster_id, tag name>>
    submissions,       \* table submissions
    seq,               \* the autoincrement counters of the tables
    fetch_tasks,       \* ingest_source tasks of the broker: id -> task
    enrich_queue,      \* enrich_raw_item messages of the broker
    wk,                \* the workers: pc and locals of the running task
    fetch_log,         \* history: the last finished run of each ingest_source task
    enrich_log,        \* history: one record per finished enrich_raw_item run
    sub_queue,         \* process_submission messages of the broker
    maint_log,         \* history: one record per merge or purge step
    validation_logs,   \* table validation_logs
    entity_table,      \* table entities, as the roster sync rewrites it
    call,              \* history: the last call of a relevance or matching function
    api                \* the API server processes: position and locals of a request

tables ==
    <<sources, raw_items, story_variants, clusters, cluster_variants,
      cluster_entities, cluster_tags, submissions, seq>>

\* The submission broker queue and the maintenance history.
ops == <<sub_queue, maint_log>>

\* The audit table, the roster, the record of the last function call and the
\* API server processes.
side == <<validation_logs, entity_table, call, api>>

vars ==
    <<now, ticks, beats, tables, fetch_tasks, enrich_queue, wk, fetch_log,
      enrich_log, ops, side>>

NoCall == [fn |-> "none"]

NoRow == [id |-> 0]

\* An API process between two requests.
ApiIdle == [pc |-> "idle", url |-> NoUrl, client_ip |-> "", recent_submissions |-> 0]

Idle ==
    [pc |-> "idle", task |-> 0, src |-> NoneT, src_err |-> 0, committed |-> FALSE,
     err0 |-> 0, lf0 |-> NoneT, status0 |-> "", entries |-> <<>>, row |-> NoRow, raw_id |-> 0,
     variant |-> NoRow, best |-> NoRow, score |-> 0, sub |-> 0,
     cutoff |-> NoneT]

SourceRow(method, category, status) ==
    [ingest_method |-> method, category |-> category, status |-> status,
     last_fetched_at |-> NoneT, fetch_error_count |-> 0,
     skip_relevance_check |-> FALSE]

Init ==
    /\ now = StartTime
    /\ ticks = 0
    /\ beats = 0
    /\ \E m2 \in {"rss", "html"}, st2 \in {"approved", "candidate"},
          has0 \in BOOLEAN :
           sources = (1 :> SourceRow("rss", "press", "approved"))
                     @@ (2 :> SourceRow(m2, "official", st2))
                     @@ (IF has0 THEN 0 :> SourceRow("api", "other", "rejected")
                         ELSE <<>>)
    /\ raw_items = {}
    /\ story_variants = {}
    /\ clusters = {}
    /\ cluster_variants = {}
    /\ cluster_entities = {}
    /\ cluster_tags = {}
    /\ submissions = {}
    /\ seq = [raw_item |-> 1, variant |-> 1, cluster |-> 1, submission |-> 1,
              entity |-> 5]
    /\ fetch_tasks = <<>>
    /\ enrich_queue = {}
    /\ wk = [w \in Workers |-> Idle]
    /\ fetch_log = {}
    /\ enrich_log = {}
    /\ sub_queue = {}
    /\ maint_log = {}
    /\ validation_logs = {}
    /\ entity_table = entities
    /\ call = NoCall
    /\ api = [p \in ApiProcesses |-> ApiIdle]



(***************************************************************************)
(* Scheduled ingestion: ingest_all_sources, ingest_source, ingest_rss.     *)
(***************************************************************************)
\* db_utils.get_active_sources: the approved sources (priority = id order).
get_active_sources ==
    SortedSeq({s \in DOMAIN sources : sources[s].status = "approved"})

FetchTask(s) ==
    [source_id |-> s, retries |-> 0, state |-> "queued", runs |-> 0,
     countdowns |-> <<>>]

\* One run of the beat task: a group of one ingest_source per approved source.
ingest_all_sources ==
    /\ beats < MaxBeats
    /\ beats' = beats + 1
    /\ fetch_tasks' =
           fetch_tasks \o [i \in 1..Len(get_active_sources) |->
                               FetchTask(get_active_sources[i])]
    /\ UNCHANGED <<side, now, ticks, tables, enrich_queue, wk, fetch_log, enrich_log, ops>>

\* An operator changes a source's status (the admin review of a source).
SetSourceStatus(s, st) ==
    /\ s \in DOMAIN sources
    /\ st \in SourceStatuses
    /\ sources[s].status # st
    /\ \/ sources[s].status = "candidate" /\ st = "queued_for_review"
       \/ sources[s].status = "queued_for_review" /\ st \in {"approved", "rejected"}
       \/ sources[s].status = "approved" /\ st = "rejected"
    /\ sources' = [sources EXCEPT ![s].status = st]
    /\ UNCHANGED <<side, now, ticks, beats, raw_items, story_variants,
                   clusters, cluster_variants, cluster_entities, cluster_tags,
                   submissions, seq, fetch_tasks, enrich_queue, wk, fetch_log,
                   enrich_log, ops>>

LogFetch(row) == {r \in fetch_log : r.task # row.task} \cup {row}

FetchLogRow(w, t, s, outcome, retried) ==
    [task |-> t, source |-> s, method |-> sources[s].ingest_method,
     run |-> fetch_tasks'[t].runs, status0 |-> wk[w].status0,
     outcome |-> outcome, retried |-> retried,
     err0 |-> wk[w].err0, err1 |-> sources'[s].fetch_error_count,
     lf0 |-> wk[w].lf0, lf1 |-> sources'[s].last_fetched_at, at |-> now]

\* ingest_source, lines 60-77: load the source and dispatch on its method.
\* ingest_html and ingest_api return {"status": "not_implemented"} at once.
ingest_source_start(w, t) ==
    /\ wk[w].pc = "idle"
    /\ t \in DOMAIN fetch_tasks
    /\ fetch_tasks[t].state = "queued"
    /\ LET s == fetch_tasks[t].source_id
           src == sources[s]
           loaded == [Idle EXCEPT !.task = t, !.src = s,
                                  !.src_err = src.fetch_error_count,
                                  !.err0 = src.fetch_error_count,
                                  !.lf0 = src.last_fetched_at,
                                  !.status0 = src.status]
       IN  IF src.ingest_method = "rss"
           THEN /\ fetch_tasks' = [fetch_tasks EXCEPT ![t].state = "running",
                                                      ![t].runs = @ + 1]
                /\ wk' = [wk EXCEPT ![w] = [loaded EXCEPT !.pc = "rss_fetch"]]
                /\ UNCHANGED <<fetch_log, sources>>
           ELSE /\ fetch_tasks' = [fetch_tasks EXCEPT ![t].state = "done",
                                                      ![t].runs = @ + 1]
                /\ UNCHANGED <<wk, sources>>
                /\ fetch_log' =
                       LogFetch([FetchLogRow(w, t, s, "returned", FALSE)
                                    EXCEPT !.status0 = src.status,
                                           !.err0 = src.fetch_error_count,
                                           !.lf0 = src.last_fetched_at])
    /\ UNCHANGED <<side, now, ticks, beats, raw_items, story_variants,
                   clusters, cluster_variants, cluster_entities, cluster_tags,
                   submissions, seq, enrich_queue, enrich_log, ops>>

\* ingest_rss, lines 104-143: the feed is fetched and parsed ...
rss_fetch_ok(w, feed) ==
    /\ wk[w].pc = "rss_fetch"
    /\ Cardinality(raw_items) + Len(feed) <= MaxRawItems
    /\ wk' = [wk EXCEPT ![w].pc = "rss_loop", ![w].entries = feed]
    /\ UNCHANGED <<side, now, ticks, beats, tables, fetch_tasks, enrich_queue,
                   fetch_log, enrich_log, ops>>

\* ... or the fetch fails (HTTP error and fallback failure, fatal parse error).
rss_fetch_fail(w) ==
    /\ wk[w].pc = "rss_fetch"
    /\ wk' = [wk EXCEPT ![w].pc = "rss_except"]
    /\ UNCHANGED <<side, now, ticks, beats, tables, fetch_tasks, enrich_queue,
                   fetch_log, enrich_log, ops>>

RawItemRow(source_id, source_item_id, original_url, raw_title, raw_description, published_at) ==
    [id |-> 0, source_id |-> source_id, source_item_id |-> source_item_id,
     original_url |-> original_url,
     canonical_url |-> normalize_url(original_url),
     ingest_hash |-> IngestHash(source_id, normalize_url(original_url), raw_title),
     raw_title |-> raw_title, raw_description |-> raw_description,
     published_at |-> published_at, created_at |-> NoneT]

\* create_raw_item, lines 247-266: the three idempotency queries.
ExistingRawItem(row) ==
    \/ /\ row.source_item_id # NoneS
       /\ \E r \in raw_items : /\ r.source_id = row.source_id
                               /\ r.source_item_id = row.source_item_id
    \/ \E r \in raw_items : r.canonical_url = row.canonical_url
    \/ \E r \in raw_items : r.ingest_hash = row.ingest_hash

\* create_raw_item up to db.add: None for no link or a duplicate, else the
\* new row is pending in the session.
rss_entry_check(w) ==
    /\ wk[w].pc = "rss_loop"
    /\ wk[w].entries # <<>>
    /\ LET e == Head(wk[w].entries)
           row == RawItemRow(wk[w].src, e.id, e.link, e.title, e.summary,
                             e.published)
       IN  IF e.link = NoUrl \/ ExistingRawItem(row)
           THEN wk' = [wk EXCEPT ![w].entries = Tail(@)]
           ELSE wk' = [wk EXCEPT ![w].row = row, ![w].pc = "rss_add"]
    /\ UNCHANGED <<side, now, ticks, beats, tables, fetch_tasks, enrich_queue,
                   fetch_log, enrich_log, ops>>

\* create_raw_item, lines 280-284: db.commit() makes the row visible.
rss_commit_row(w) ==
    /\ wk[w].pc = "rss_add"
    /\ LET row == [wk[w].row EXCEPT !.id = seq.raw_item, !.created_at = now]
       IN  /\ raw_items' = raw_items \cup {row}
           /\ wk' = [wk EXCEPT ![w].row = row, ![w].pc = "rss_enqueue",
                               ![w].committed = TRUE]
    /\ seq' = [seq EXCEPT !.raw_item = @ + 1]
    /\ UNCHANGED <<side, now, ticks, beats, sources, story_variants,
                   clusters, cluster_variants, cluster_entities, cluster_tags,
                   submissions, fetch_tasks, enrich_queue, fetch_log,
                   enrich_log, ops>>

\* ingest_rss, lines 157-161: enrich_raw_item.delay(raw_item.id).
\* (rss_enqueue_early: the message is sent as soon as the row is in the
\* session, before create_raw_item commits it.)
rss_enqueue_early(w) ==
    /\ wk[w].pc \in {"rss_add", "rss_enqueue"}
    /\ IF wk[w].pc = "rss_add"
       THEN /\ seq.raw_item \notin enrich_queue
            /\ enrich_queue' = enrich_queue \cup {seq.raw_item}
            /\ UNCHANGED wk
       ELSE /\ enrich_queue' = enrich_queue \cup {wk[w].row.id}
            /\ wk' = [wk EXCEPT ![w].pc = "rss_loop", ![w].entries = Tail(@),
                                ![w].row = NoRow]
    /\ UNCHANGED <<side, now, ticks, beats, tables, fetch_tasks, fetch_log, enrich_log, ops>>

rss_enqueue(w) ==
    /\ wk[w].pc = "rss_enqueue"
    /\ enrich_queue' = enrich_queue \cup {wk[w].row.id}
    /\ wk' = [wk EXCEPT ![w].pc = "rss_loop", ![w].entries = Tail(@),
                        ![w].row = NoRow]
    /\ UNCHANGED <<side, now, ticks, beats, tables, fetch_tasks, fetch_log, enrich_log, ops>>

\* ingest_rss, lines 145-163: the loop has no handler of its own, so an
\* exception of one entry leaves the loop for the handler of line 180.  It
\* is raised while the row is built (parse_published_date's mktime on the
\* entry's date, urlparse on its link, a failed query) or by
\* enrich_raw_item.delay after the row is committed (the broker refuses).
rss_entry_fail(w) ==
    /\ \/ wk[w].pc = "rss_loop" /\ wk[w].entries # <<>>
       \/ wk[w].pc = "rss_enqueue"
    /\ wk' = [wk EXCEPT ![w].pc = "rss_except"]
    /\ UNCHANGED <<side, now, ticks, beats, tables, fetch_tasks, enrich_queue,
                   fetch_log, enrich_log, ops>>

\* ingest_rss, lines 165-178: the loop is over.
rss_finish(w) ==
    /\ wk[w].pc = "rss_loop"
    /\ wk[w].entries = <<>>
    /\ LET t == wk[w].task
           s == wk[w].src
       IN  /\ sources' = [sources EXCEPT ![s].last_fetched_at = now,
                                         ![s].fetch_error_count = 0]
           /\ fetch_tasks' = [fetch_tasks EXCEPT ![t].state = "done"]
           /\ fetch_log' = LogFetch(FetchLogRow(w, t, s, "success", FALSE))
    /\ wk' = [wk EXCEPT ![w] = Idle]
    /\ UNCHANGED <<side, now, ticks, beats, raw_items, story_variants,
                   clusters, cluster_variants, cluster_entities, cluster_tags,
                   submissions, seq, enrich_queue, enrich_log, ops>>

\* self.retry(exc=exc, countdown=60 * (2 ** self.request.retries))
RetryCountdown_linear(retries) == RetryBase * (retries + 1)

RetryCountdown(retries) == RetryBase * Pow2(retries)

\* Celery's Task.retry: a retry is scheduled while retries < max_retries,
\* otherwise the exception is raised and the task ends as failed.
CanRetry(retries) == retries < max_retries

\* ingest_rss, lines 180-184, then ingest_source, lines 79-82.  The session's
\* source object holds the counter as loaded by line 63, unless a commit of
\* this task expired it.
rss_except(w) ==
    /\ wk[w].pc = "rss_except"
    /\ LET t == wk[w].task
           s == wk[w].src
           seen == IF wk[w].committed THEN sources[s].fetch_error_count
                   ELSE wk[w].src_err
           r == fetch_tasks[t].retries
       IN  /\ sources' = [sources EXCEPT ![s].fetch_error_count = seen + 1]
           /\ fetch_tasks' =
                  IF CanRetry(r)
                  THEN [fetch_tasks EXCEPT
                            ![t].state = "queued", ![t].retries = r + 1,
                            ![t].countdowns = Append(@, RetryCountdown(r))]
                  ELSE [fetch_tasks EXCEPT ![t].state = "failed"]
           /\ fetch_log' = LogFetch(FetchLogRow(w, t, s, "failure", CanRetry(r)))
    /\ wk' = [wk EXCEPT ![w] = Idle]
    /\ UNCHANGED <<side, now, ticks, beats, raw_items, story_variants,
                   clusters, cluster_variants, cluster_entities, cluster_tags,
                   submissions, seq, enrich_queue, enrich_log, ops>>

\* The clock.
Tick(d) ==
    /\ ticks < MaxClock
    /\ ticks' = ticks + 1
    /\ now' = now + d
    /\ UNCHANGED <<side, beats, tables, fetch_tasks, enrich_queue, wk,
                   fetch_log, enrich_log, ops>>


(***************************************************************************)
(* Clustering scores.  E, T, K and S are exact rationals, held as integers *)
(* in units of 1/ScoreScale (E, T, K) and 1/(100 * ScoreScale) (S).        *)
(***************************************************************************)
ScoreScale == 8 * 9 * 5 * 7 * 11     \* a multiple of every denominator <= 12

cluster_similarity_threshold == 62   \* percent
entity_overlap_threshold == 50       \* percent
token_similarity_threshold == 40     \* percent
WeightE == 55
WeightT == 35
WeightK == 10

Max(a, b) == IF a >= b THEN a ELSE b

entity_overlap_score(entities_v, entities_c) ==
    IF entities_v = <<>> \/ entities_c = <<>> THEN 0
    ELSE (Cardinality(Range(entities_v) \cap Range(entities_c)) * ScoreScale)
             \div Max(Len(entities_v), Len(entities_c))

jaccard_similarity(tokens_v, tokens_c) ==
    IF tokens_v = <<>> \/ tokens_c = <<>> THEN 0
    ELSE (Cardinality(Range(tokens_v) \cap Range(tokens_c)) * ScoreScale)
             \div Max(1, Cardinality(Range(tokens_v) \cup Range(tokens_c)))

compatible_pairs ==
    {<<"trade", "signing">>, <<"signing", "trade">>, <<"lineup", "game">>,
     <<"game", "lineup">>, <<"recall", "lineup">>, <<"lineup", "recall">>}

event_compatibility_score(event_v, event_c) ==
    IF event_v = event_c THEN ScoreScale
    ELSE IF <<event_v, event_c>> \in compatible_pairs THEN ScoreScale \div 2
    ELSE 0

\* S is computed in binary64: 0.55 * E + 0.35 * T + 0.10 * K.  For E with a
\* denominator up to 30 and T with a denominator up to 120 the double result
\* is on the same side of 0.62 as the exact sum, except at E = 6/11,
\* T = 32/35, K = 0, where the exact sum is 0.62 and the double is
\* 0.6199999999999999 (0.35 * (32/35) is 0.31999999999999995).
RoundsBelow == {<<(6 * ScoreScale) \div 11, (32 * ScoreScale) \div 35, 0>>}

Score(E, T, K) ==
    WeightE * E + WeightT * T + WeightK * K
        - (IF <<E, T, K>> \in RoundsBelow THEN 1 ELSE 0)

\* is_match without the overall score gate.
is_match_entitygate(E, T, S, entities_v) ==
    IF Len(entities_v) > 0
    THEN 100 * E >= entity_overlap_threshold * ScoreScale
    ELSE 100 * T >= token_similarity_threshold * ScoreScale

is_match(E, T, S, entities_v) ==
    /\ IF Len(entities_v) > 0
       THEN 100 * E >= entity_overlap_threshold * ScoreScale
       ELSE 100 * T >= token_similarity_threshold * ScoreScale
    /\ S >= cluster_similarity_threshold * ScoreScale

get_time_window_for_event(event_type) ==
    IF event_type \in {"trade", "injury", "lineup", "recall", "waiver",
                       "signing", "prospect", "other"} THEN 72
    ELSE IF event_type = "game" THEN 24
    ELSE IF event_type = "opinion" THEN 12
    ELSE 72

\* An arbitrary but fixed listing of a finite set: list(set).
RECURSIVE ListOf(_)
ListOf(S) ==
    IF S = {} THEN <<>>
    ELSE LET x == CHOOSE y \in S : TRUE IN <<x>> \o ListOf(S \ {x})

ClusterIds == {c.id : c \in clusters}
ClusterById(id) == CHOOSE c \in clusters : c.id = id

\* The candidates without the cutoff of line 345.
Candidates_nowindow(event_type) ==
    {c \in clusters : c.status = "active"}

\* match_or_create_cluster, lines 343-346.
Candidates(event_type) ==
    {c \in clusters : /\ c.status = "active"
                      /\ c.first_seen_at >= now - get_time_window_for_event(event_type)}

SimilarityTo(c, tokens, clustering_entities, event_type) ==
    LET E == entity_overlap_score(clustering_entities,
                                  filter_team_entities(entities, c.entities_agg))
        T == jaccard_similarity(tokens, c.tokens)
        K == event_compatibility_score(event_type, c.event_type)
    IN  [E |-> E, T |-> T, S |-> Score(E, T, K)]

\* match_or_create_cluster, lines 353-374: the loop over the candidates in
\* id order; S > best_score + 0.000001 replaces the best so far.  In units
\* of 1/(100 * ScoreScale) that is (S - best) * 10^6 > 100 * ScoreScale;
\* both sides are divided by 4000 to stay within machine integers.
RECURSIVE BestMatch(_, _, _, _, _)
BestMatch(ids, best, tokens, clustering_entities, event_type) ==
    IF ids = <<>> THEN best
    ELSE LET c == ClusterById(Head(ids))
             sim == SimilarityTo(c, tokens, clustering_entities, event_type)
             better ==
                 /\ is_match(sim.E, sim.T, sim.S, clustering_entities)
                 /\ (sim.S - best.score) * 250 > ScoreScale \div 40
         IN  BestMatch(Tail(ids),
                       IF better THEN [cluster |-> c, score |-> sim.S] ELSE best,
                       tokens, clustering_entities, event_type)


(***************************************************************************)
(* Enrichment: enrich_raw_item and match_or_create_cluster.                *)
(***************************************************************************)
EnrichLogRow(raw_id, outcome, reason, variant_id, cluster_id) ==
    [raw_id |-> raw_id, outcome |-> outcome, reason |-> reason,
     variant_id |-> variant_id, cluster_id |-> cluster_id]

VariantRow(raw, tokens, entity_ids, event_type) ==
    [id |-> seq.variant, raw_item_id |-> raw.id, source_id |-> raw.source_id,
     title |-> IF raw.raw_title = NoneS THEN "Untitled" ELSE raw.raw_title,
     url |-> raw.canonical_url,
     published_at |-> IF raw.published_at = NoneT THEN now ELSE raw.published_at,
     event_type |-> event_type, tokens |-> tokens, entities |-> entity_ids]

\* enrich_raw_item without the relevance step of lines 44-53.
enrich_start_norelevance(w, id) ==
    /\ wk[w].pc = "idle"
    /\ id \in enrich_queue
    /\ enrich_queue' = enrich_queue \ {id}
    /\ LET found == {r \in raw_items : r.id = id}
           raw == CHOOSE r \in found : TRUE
           a == Enrichment(raw.raw_title, raw.raw_description)
           variant == VariantRow(raw, a.tokens, a.entity_ids, a.event_type)
           end(outcome, reason) ==
               /\ enrich_log' = enrich_log \cup
                                    {EnrichLogRow(id, outcome, reason, 0, 0)}
               /\ UNCHANGED <<wk, story_variants, seq>>
       IN  IF found = {} THEN end("returned", "raw_item_not_found")
           ELSE IF raw.raw_title = NoneS THEN end("raised", "no_title")
           ELSE IF raw.source_id \notin DOMAIN sources
           THEN end("raised", "no_source")
           ELSE IF \E v \in story_variants : v.url = variant.url
           THEN end("raised", "unique_url")
           ELSE /\ story_variants' = story_variants \cup {variant}
                /\ seq' = [seq EXCEPT !.variant = @ + 1]
                /\ wk' = [wk EXCEPT ![w] = [Idle EXCEPT !.pc = "match",
                                                        !.raw_id = id,
                                                        !.variant = variant]]
                /\ UNCHANGED enrich_log
    /\ UNCHANGED <<side, now, ticks, beats, sources, raw_items, clusters,
                   cluster_variants, cluster_entities, cluster_tags, submissions,
                   fetch_tasks, fetch_log, ops>>

\* enrich_raw_item, lines 25-74 and 90-95: up to the commit of the variant.
\* The relevance decision of lines 44-53 is printed and returned; neither
\* enrich_raw_item nor check_sharks_relevance adds a validation_logs row.
\* An exception (raw_title[:50] of a NULL title, no source row, the unique
\* url) is rolled back and raised.
enrich_start(w, id) ==
    /\ wk[w].pc = "idle"
    /\ id \in enrich_queue
    /\ enrich_queue' = enrich_queue \ {id}
    /\ LET found == {r \in raw_items : r.id = id}
           raw == CHOOSE r \in found : TRUE
           a == Enrichment(raw.raw_title, raw.raw_description)
           variant == VariantRow(raw, a.tokens, a.entity_ids, a.event_type)
           end(outcome, reason) ==
               /\ enrich_log' = enrich_log \cup
                                    {EnrichLogRow(id, outcome, reason, 0, 0)}
               /\ UNCHANGED <<wk, story_variants, seq>>
       IN  IF found = {} THEN end("returned", "raw_item_not_found")
           ELSE IF raw.raw_title = NoneS THEN end("raised", "no_title")
           ELSE IF raw.source_id \notin DOMAIN sources
           THEN end("raised", "no_source")
           ELSE IF ~sources[raw.source_id].skip_relevance_check /\ ~a.relevant
           THEN end("returned", "not_sharks_relevant")
           ELSE IF \E v \in story_variants : v.url = variant.url
           THEN end("raised", "unique_url")
           ELSE /\ story_variants' = story_variants \cup {variant}
                /\ seq' = [seq EXCEPT !.variant = @ + 1]
                /\ wk' = [wk EXCEPT ![w] = [Idle EXCEPT !.pc = "match",
                                                        !.raw_id = id,
                                                        !.variant = variant]]
                /\ UNCHANGED enrich_log
    /\ UNCHANGED <<side, now, ticks, beats, sources, raw_items, clusters,
                   cluster_variants, cluster_entities, cluster_tags, submissions,
                   fetch_tasks, fetch_log, ops>>

\* match_or_create_cluster, lines 339-374: the candidates are loaded into
\* the session and scored.
enrich_match(w) ==
    /\ wk[w].pc = "match"
    /\ LET v == wk[w].variant
           best == BestMatch(SortedSeq({c.id : c \in Candidates(v.event_type)}),
                             [cluster |-> NoRow, score |-> 0], v.tokens,
                             filter_team_entities(entities, v.entities),
                             v.event_type)
       IN  wk' = [wk EXCEPT ![w].pc = "link", ![w].best = best.cluster,
                            ![w].score = best.score]
    /\ UNCHANGED <<side, now, ticks, beats, tables, fetch_tasks, enrich_queue,
                   fetch_log, enrich_log, ops>>

\* create_cluster, lines 549-557.
create_cluster(variant) ==
    [id |-> seq.cluster, headline |-> variant.title,
     event_type |-> variant.event_type, status |-> "active",
     first_seen_at |-> variant.published_at,
     last_seen_at |-> variant.published_at,
     source_count |-> 1, tokens |-> variant.tokens,
     entities_agg |-> variant.entities]

\* update_cluster_metadata, lines 583-597, on the cluster object c of the
\* session.
update_cluster_metadata_nocount(c, variant) ==
    [c EXCEPT !.last_seen_at = now,
              !.tokens = ListOf(Range(c.tokens) \cup Range(variant.tokens)),
              !.entities_agg =
                  SortedSeq(Range(c.entities_agg) \cup Range(variant.entities))]

update_cluster_metadata(c, variant) ==
    [c EXCEPT !.last_seen_at = now,
              !.source_count = c.source_count + 1,
              !.tokens = ListOf(Range(c.tokens) \cup Range(variant.tokens)),
              !.entities_agg =
                  SortedSeq(Range(c.entities_agg) \cup Range(variant.entities))]

\* The UPDATE the flush emits: the columns whose value changed in the
\* session, written over the row as it is in the table now.
FlushCluster(row, loaded, changed) ==
    [row EXCEPT !.last_seen_at = IF changed.last_seen_at = loaded.last_seen_at
                                 THEN @ ELSE changed.last_seen_at,
                !.source_count = IF changed.source_count = loaded.source_count
                                 THEN @ ELSE changed.source_count,
                !.tokens = IF changed.tokens = loaded.tokens THEN @
                           ELSE changed.tokens,
                !.entities_agg = IF changed.entities_agg = loaded.entities_agg
                                 THEN @ ELSE changed.entities_agg]

\* add_cluster_entity_associations / add_cluster_tag_associations.
NewPairs(cluster_id, keys, table) ==
    {<<cluster_id, k>> : k \in keys} \ table

ClusterVariantRow(cluster_id, variant_id, score) ==
    [cluster_id |-> cluster_id, variant_id |-> variant_id,
     similarity_score |-> score]

\* match_or_create_cluster, lines 377-397: one transaction.  An attach
\* whose cluster row is gone (deleted by a merge or a purge meanwhile) fails
\* in the flush; the exception is rolled back and raised.
enrich_link(w) ==
    /\ wk[w].pc = "link"
    /\ LET v == wk[w].variant
           best == wk[w].best
           tags == TagsOf(v.title, v.url, sources[v.source_id].category)
       IN  IF best = NoRow
           THEN LET c == create_cluster(v)
                IN  /\ clusters' = clusters \cup {c}
                    /\ seq' = [seq EXCEPT !.cluster = @ + 1]
                    /\ cluster_entities' = cluster_entities
                           \cup NewPairs(c.id, Range(v.entities), cluster_entities)
                    /\ cluster_tags' = cluster_tags
                           \cup NewPairs(c.id, tags, cluster_tags)
                    /\ cluster_variants' = cluster_variants
                           \cup {ClusterVariantRow(c.id, v.id, 100 * ScoreScale)}
                    /\ enrich_log' = enrich_log \cup
                           {EnrichLogRow(wk[w].raw_id, "returned", "success",
                                         v.id, c.id)}
           ELSE IF best.id \notin ClusterIds
                   \/ ~\E sv \in story_variants : sv.id = v.id
           THEN /\ enrich_log' = enrich_log \cup
                       {EnrichLogRow(wk[w].raw_id, "raised", "stale_row", v.id, 0)}
                /\ UNCHANGED <<clusters, seq, cluster_entities, cluster_tags,
                               cluster_variants>>
           ELSE LET row == ClusterById(best.id)
                    new == FlushCluster(row, best, update_cluster_metadata(best, v))
                IN  /\ clusters' = (clusters \ {row}) \cup {new}
                    /\ cluster_entities' = cluster_entities
                           \cup NewPairs(row.id, Range(v.entities), cluster_entities)
                    /\ cluster_tags' = cluster_tags
                           \cup NewPairs(row.id, tags, cluster_tags)
                    /\ cluster_variants' = cluster_variants
                           \cup {ClusterVariantRow(row.id, v.id, wk[w].score)}
                    /\ enrich_log' = enrich_log \cup
                           {EnrichLogRow(wk[w].raw_id, "returned", "success",
                                         v.id, row.id)}
                    /\ UNCHANGED seq
    /\ wk' = [wk EXCEPT ![w] = Idle]
    /\ UNCHANGED <<side, now, ticks, beats, sources, raw_items,
                   story_variants, submissions, fetch_tasks, enrich_queue,
                   fetch_log, ops>>


(***************************************************************************)
(* Maintenance: scripts/merge_clusters.py and tasks/maintenance.py.        *)
(***************************************************************************)
\* merge_clusters, steps 2 and 3: the association rows of each source
\* cluster, in turn, move to the target unless the target has the key
\* already, in which case the row is deleted.
RECURSIVE MovePairs(_, _, _)
MovePairs(table, sids, target) ==
    IF sids = <<>> THEN table
    ELSE LET sid == Head(sids)
             existing == {p[2] : p \in {q \in table : q[1] = target}}
             rows == {q \in table : q[1] = sid}
             moved == {<<target, q[2]>> : q \in {r \in rows : r[2] \notin existing}}
         IN  MovePairs((table \ rows) \cup moved, Tail(sids), target)

SetMin_latest(S) == CHOOSE x \in S : \A y \in S : x >= y

SetMin(S) == CHOOSE x \in S : \A y \in S : x <= y
SetMax(S) == CHOOSE x \in S : \A y \in S : x >= y

\* merge_clusters(cluster_ids) answered with "y": one transaction.  The
\* bulk delete of step 6 relies on the ON DELETE CASCADE / SET NULL of the
\* foreign keys.
merge_clusters(cluster_ids) ==
    /\ IF Len(cluster_ids) < 2 \/ \E i \in DOMAIN cluster_ids :
                                      cluster_ids[i] \notin ClusterIds
       THEN /\ maint_log' = maint_log \cup
                   {[op |-> "merge", ok |-> FALSE]}
            /\ UNCHANGED <<clusters, cluster_variants, cluster_entities,
                           cluster_tags, submissions>>
       ELSE LET target_id == cluster_ids[1]
                source_ids == Tail(cluster_ids)
                target == ClusterById(target_id)
                loaded == {ClusterById(cluster_ids[i]) : i \in DOMAIN cluster_ids}
                moved_cv == {IF cv.cluster_id \in Range(source_ids)
                             THEN [cv EXCEPT !.cluster_id = target_id] ELSE cv :
                                 cv \in cluster_variants}
                merged ==
                    [target EXCEPT
                       !.first_seen_at = SetMin({c.first_seen_at : c \in loaded}),
                       !.last_seen_at = SetMax({c.last_seen_at : c \in loaded}),
                       !.tokens = ListOf(UNION {Range(c.tokens) : c \in loaded}),
                       !.entities_agg =
                           SortedSeq(UNION {Range(c.entities_agg) : c \in loaded}),
                       !.source_count =
                           Cardinality({cv \in moved_cv : cv.cluster_id = target_id})]
                gone == Range(source_ids)
            IN  /\ clusters' = {c \in (clusters \ {target}) \cup {merged} :
                                    c.id \notin gone}
                /\ cluster_variants' = {cv \in moved_cv : cv.cluster_id \notin gone}
                /\ cluster_tags' =
                       {q \in MovePairs(cluster_tags, source_ids, target_id) :
                            q[1] \notin gone}
                /\ cluster_entities' =
                       {q \in MovePairs(cluster_entities, source_ids, target_id) :
                            q[1] \notin gone}
                /\ submissions' = {IF sb.cluster_id \in gone
                                   THEN [sb EXCEPT !.cluster_id = NoneT] ELSE sb :
                                       sb \in submissions}
                /\ maint_log' = maint_log \cup
                       {[op |-> "merge", ok |-> TRUE]}
    /\ UNCHANGED <<side, now, ticks, beats, sources, raw_items,
                   story_variants, seq, fetch_tasks, enrich_queue, wk,
                   fetch_log, enrich_log, sub_queue>>

\* purge_old_items, lines 43-50: the clusters not seen for 30 days are
\* deleted through the session; the relationships of Cluster cascade the
\* delete to the link rows and the submissions are detached.
purge_old_items_clusters(w) ==
    /\ wk[w].pc = "idle"
    /\ LET cutoff == now - PurgeHours
           old == {c.id : c \in {x \in clusters : x.last_seen_at < cutoff}}
       IN  /\ clusters' = {c \in clusters : c.id \notin old}
           /\ cluster_variants' = {cv \in cluster_variants : cv.cluster_id \notin old}
           /\ cluster_tags' = {q \in cluster_tags : q[1] \notin old}
           /\ cluster_entities' = {q \in cluster_entities : q[1] \notin old}
           /\ submissions' = {IF sb.cluster_id \in old
                              THEN [sb EXCEPT !.cluster_id = NoneT] ELSE sb :
                                  sb \in submissions}
           /\ maint_log' = maint_log \cup
                  {[op |-> "purge_clusters", ok |-> TRUE]}
           /\ wk' = [wk EXCEPT ![w] = [Idle EXCEPT !.pc = "purge_items",
                                                   !.cutoff = cutoff]]
    /\ UNCHANGED <<side, now, ticks, beats, sources, raw_items,
                   story_variants, seq, fetch_tasks, enrich_queue, fetch_log,
                   enrich_log, sub_queue>>

\* purge_old_items, lines 54-58: the raw items created before the cutoff are
\* deleted through the session.  RawItem.story_variants has no delete
\* cascade, so the flush first detaches the variants of a deleted item
\* (raw_item_id = NULL), which the NOT NULL column refuses: the commit
\* raises and the transaction deletes nothing.
purge_old_items_raw(w) ==
    /\ wk[w].pc = "purge_items"
    /\ LET old == {r.id : r \in {x \in raw_items : x.created_at < wk[w].cutoff}}
       IN  IF \E v \in story_variants : v.raw_item_id \in old
           THEN /\ maint_log' = maint_log \cup
                       {[op |-> "purge_raw_items", ok |-> FALSE]}
                /\ UNCHANGED <<raw_items, submissions>>
           ELSE /\ raw_items' = {r \in raw_items : r.id \notin old}
                /\ submissions' = {IF sb.raw_item_id \in old
                                   THEN [sb EXCEPT !.raw_item_id = NoneT] ELSE sb :
                                       sb \in submissions}
                /\ maint_log' = maint_log \cup
                       {[op |-> "purge_raw_items", ok |-> TRUE]}
    /\ wk' = [wk EXCEPT ![w] = Idle]
    /\ UNCHANGED <<side, now, ticks, beats, sources, story_variants,
                   clusters, cluster_variants, cluster_entities, cluster_tags,
                   seq, fetch_tasks, enrich_queue, fetch_log, enrich_log,
                   sub_queue>>


(***************************************************************************)
(* The scoring of one candidate, called on its own.                        *)
(***************************************************************************)
\* match_or_create_cluster, lines 363-371, for one candidate: the entities
\* are the lists after filter_team_entities.
MatchScores(entities_v, entities_c, tokens_v, tokens_c, event_v, event_c) ==
    LET E == entity_overlap_score(entities_v, entities_c)
        T == jaccard_similarity(tokens_v, tokens_c)
        K == event_compatibility_score(event_v, event_c)
        S == Score(E, T, K)
    IN  [E |-> E, T |-> T, K |-> K, S |-> S,
         match |-> is_match(E, T, S, entities_v)]

\* Lists of n ids or tokens, the first k of them shared with the variant's.
Ids(from, n) == [i \in 1..n |-> from + i - 1]

\* <<variant's list, cluster's list>> of non-team entity ids: 6 of 11 shared,
\* the same single entity, 1 of 3, 1 of 2, and a variant without entities.
EntityPairSamples ==
    {<<Ids(1, 6), Ids(1, 11)>>, <<Ids(1, 1), Ids(1, 1)>>, <<Ids(1, 1), Ids(1, 3)>>,
     <<Ids(1, 1), Ids(1, 2)>>, <<Ids(1, 0), Ids(1, 2)>>}

\* <<variant's tokens, cluster's tokens>>, tokens named by numbers: 32 of 35
\* shared, 1 of 5, 3 of 5, 2 of 5, equal lists, disjoint lists.
TokenPairSamples ==
    {<<Ids(1, 32), Ids(1, 35)>>, <<Ids(1, 1), Ids(1, 5)>>, <<Ids(1, 3), Ids(1, 5)>>,
     <<Ids(1, 2), Ids(1, 5)>>, <<Ids(1, 4), Ids(1, 4)>>, <<Ids(1, 2), Ids(3, 2)>>}

EventPairSamples ==
    {<<"signing", "signing">>, <<"trade", "signing">>, <<"trade", "injury">>}

match_call(ents, toks, evs) ==
    /\ call' = [fn |-> "match",
                input |-> [entities_v |-> ents[1], entities_c |-> ents[2],
                           tokens_v |-> toks[1], tokens_c |-> toks[2],
                           event_v |-> evs[1], event_c |-> evs[2]],
                result |-> MatchScores(ents[1], ents[2], toks[1], toks[2],
                                       evs[1], evs[2])]
    /\ UNCHANGED <<validation_logs, entity_table, api, now, ticks, beats, tables,
                   fetch_tasks, enrich_queue, wk, fetch_log, enrich_log, ops>>


(***************************************************************************)
(* The LLM relevance check: services/ollama.py.                            *)
(***************************************************************************)
\* str.upper()
RECURSIVE Upper(_)
Upper(s) ==
    IF Len(s) = 0 THEN ""
    ELSE LET c == Char(s, 1)
             ups == {u \in DOMAIN UpperToLower : UpperToLower[u] = c}
         IN  (IF ups # {} THEN CHOOSE u \in ups : TRUE ELSE c)
             \o Upper(SubSeq(s, 2, Len(s)))

Whitespace == {" ", "\n", "\t", "\r"}

\* str.strip()
RECURSIVE Strip(_)
Strip(s) ==
    IF Len(s) = 0 THEN ""
    ELSE IF Char(s, 1) \in Whitespace THEN Strip(SubSeq(s, 2, Len(s)))
    ELSE IF Char(s, Len(s)) \in Whitespace THEN Strip(SubSeq(s, 1, Len(s) - 1))
    ELSE s

\* str.startswith(prefix)
StartsWith(s, prefix) ==
    Len(s) >= Len(prefix) /\ SubSeq(s, 1, Len(prefix)) = prefix

\* s[:n]
Prefix(s, n) == IF Len(s) <= n THEN s ELSE SubSeq(s, 1, n)

\* RelevanceResult; an Optional[str] is <<>> for None and <<s>> for a string.
RelevanceResult(is_relevant, response, error) ==
    [raised |-> FALSE, is_relevant |-> is_relevant, response |-> response,
     error |-> error]

\* What the POST to /api/generate can do: time out, raise another exception
\* with some message (str(e) of an exception without arguments is empty),
\* or answer with a status and a body.  A body is no JSON, a JSON list, or
\* a JSON object whose "response" is missing, null or a string.
LlmTexts ==
    {"YES", "yes", "Yes, it is about the Sharks.", "NO", "no", " No\n", "NO.",
     "Not sure", "maybe", "", "I think yes", "Probably no"}

LlmBodies ==
    {[json |-> "invalid"], [json |-> "list"], [json |-> "object"],
     [json |-> "object", response |-> <<>>]}
    \cup {[json |-> "object", response |-> <<t>>] : t \in LlmTexts}

LlmOutcomes ==
    {[kind |-> "timeout"]}
    \cup {[kind |-> "exception", message |-> m] : m \in {"", "Connection refused"}}
    \cup {[kind |-> "response", status_code |-> c, text |-> "error page", body |-> b] :
              c \in {"404", "500", "503"}, b \in {[json |-> "invalid"]}}
    \cup {[kind |-> "response", status_code |-> "200", text |-> "", body |-> b] :
              b \in LlmBodies}

\* OllamaService.check_relevance, lines 79-150, for one outcome of the POST.
\* Nothing outside the try block can raise, and its last handler catches
\* every Exception.
OllamaService_check_relevance(outcome) ==
    IF outcome.kind = "timeout"
    THEN RelevanceResult(TRUE, <<>>, <<"Timeout after 30s">>)
    ELSE IF outcome.kind = "exception"
    THEN RelevanceResult(TRUE, <<>>, <<Prefix(outcome.message, 200)>>)
    ELSE IF outcome.status_code # "200"
    THEN RelevanceResult(TRUE, <<>>,
             <<"HTTP " \o outcome.status_code \o ": " \o Prefix(outcome.text, 200)>>)
    ELSE IF outcome.body.json = "invalid"
    THEN RelevanceResult(TRUE, <<>>, <<"Expecting value: line 1 column 1 (char 0)">>)
    ELSE IF outcome.body.json = "list"
    THEN RelevanceResult(TRUE, <<>>, <<"'list' object has no attribute 'get'">>)
    ELSE IF "response" \in DOMAIN outcome.body /\ outcome.body.response = <<>>
    THEN RelevanceResult(TRUE, <<>>,
             <<"'NoneType' object has no attribute 'strip'">>)
    ELSE LET llm_response ==
                 Upper(Strip(IF "response" \in DOMAIN outcome.body
                             THEN outcome.body.response[1] ELSE ""))
         IN  IF StartsWith(llm_response, "YES")
             THEN RelevanceResult(TRUE, <<Prefix(llm_response, 10)>>, <<>>)
             ELSE IF StartsWith(llm_response, "NO")
             THEN RelevanceResult(FALSE, <<Prefix(llm_response, 10)>>, <<>>)
             ELSE RelevanceResult(TRUE, <<Prefix(llm_response, 50)>>,
                      <<"Ambiguous LLM response: " \o Prefix(llm_response, 50)>>)

\* One call of services.ollama.check_relevance.
check_relevance(outcome) ==
    /\ call' = [fn |-> "check_relevance", input |-> outcome,
                result |-> OllamaService_check_relevance(outcome)]
    /\ UNCHANGED <<validation_logs, entity_table, api, now, ticks, beats, tables,
                   fetch_tasks, enrich_queue, wk, fetch_log, enrich_log, ops>>


\* Entity rows for calls of the matching functions: the seeded table, a
\* player with a blocklisted last name, one with a short last name, and a
\* one-word name.
EntitySamples ==
    entities \cup
    {[id |-> 5, name |-> "Ryan White", entity_type |-> "player"],
     [id |-> 6, name |-> "Tim Lee", entity_type |-> "player"],
     [id |-> 7, name |-> "Sharkie", entity_type |-> "staff"]}

TextSamples ==
    {"Sharks sign Jane Doe",
     "Stuart Skinner stops 40 shots for Oilers",
     "Skinner scores as Sharks win",
     "White and Lee lead San Jose",
     "Ryan White traded",
     "panarin-skinner-starts for sharks",
     "Sharkie visits (Jeff Skinner) at SAP Center",
     "Jeff Skinner, Jane Doe: Barracuda recall",
     "Warsofsky on the Sharkies",
     "Standings update",
     ""}

\* One call of extract_entities(db, text) on the sample table.
extract_entities_call(text) ==
    /\ call' = [fn |-> "extract_entities", input |-> text,
                result |-> extract_entities(EntitySamples, text)]
    /\ UNCHANGED <<validation_logs, entity_table, api, now, ticks, beats, tables,
                   fetch_tasks, enrich_queue, wk, fetch_log, enrich_log, ops>>

TitleSamples ==
    {"Standings update", "Sharks sign Jane Doe", "SAP Center hosts concert",
     "Barracuda recall", "San Jose wins", "SJ SHARKS win", ""}

\* Entity id lists: ids of a player, the team, the coach and of no row.
EntityIdSamples == {<<>>} \cup SeqsUpTo({1, 3, 4, 9}, 2)

\* One call of check_sharks_relevance(db, title, entity_ids).
check_sharks_relevance_call(title, entity_ids) ==
    /\ call' = [fn |-> "check_sharks_relevance",
                input |-> [title |-> title, entity_ids |-> entity_ids],
                result |-> check_sharks_relevance(entities, title, entity_ids)]
    /\ UNCHANGED <<validation_logs, entity_table, api, now, ticks, beats, tables,
                   fetch_tasks, enrich_queue, wk, fetch_log, enrich_log, ops>>


(***************************************************************************)
(* The roster sync: tasks/sync_roster.py and db_utils.get_or_create_entity.*)
(***************************************************************************)
\* re.sub(r'[^\w\s-]', '', slug)
RECURSIVE SlugChars(_)
SlugChars(s) ==
    IF Len(s) = 0 THEN ""
    ELSE LET c == Char(s, 1)
         IN  (IF c \in WordChars \cup Whitespace \cup {"-"} THEN c ELSE "")
             \o SlugChars(SubSeq(s, 2, Len(s)))

\* re.sub(r'[-\s]+', '-', slug)
RECURSIVE CollapseHyphens(_, _)
CollapseHyphens(s, inrun) ==
    IF Len(s) = 0 THEN ""
    ELSE LET c == Char(s, 1)
             tail == SubSeq(s, 2, Len(s))
         IN  IF c \in Whitespace \cup {"-"}
             THEN (IF inrun THEN "" ELSE "-") \o CollapseHyphens(tail, TRUE)
             ELSE c \o CollapseHyphens(tail, FALSE)

\* slug.strip('-')
RECURSIVE StripHyphens(_)
StripHyphens(s) ==
    IF Len(s) = 0 THEN ""
    ELSE IF Char(s, 1) = "-" THEN StripHyphens(SubSeq(s, 2, Len(s)))
    ELSE IF Char(s, Len(s)) = "-" THEN StripHyphens(SubSeq(s, 1, Len(s) - 1))
    ELSE s

\* Entity.make_slug
make_slug(name) == StripHyphens(CollapseHyphens(SlugChars(Lower(name)), FALSE))

\* The slug column of a row: make_slug of the name it was created with.
SlugOf(e) == make_slug(e.name)

\* parse_player_name: "LastName, FirstName" to "FirstName LastName"; <<>> is
\* None.
parse_player_name(raw_name) ==
    LET stripped == Strip(raw_name)
        commas == {i \in 1..Len(stripped) : Char(stripped, i) = ","}
    IN  IF commas = {}
        THEN (IF stripped = "" THEN <<>> ELSE <<stripped>>)
        ELSE LET k == CHOOSE i \in commas : \A j \in commas : i <= j
                 last_name == Strip(SubSeq(stripped, 1, k - 1))
                 first_name == Strip(SubSeq(stripped, k + 1, Len(stripped)))
             IN  IF first_name = "" \/ last_name = "" THEN <<>>
                 ELSE <<first_name \o " " \o last_name>>

\* fetch_capwages_roster, lines 122-132: the parsed names, each once, in
\* page order.
RECURSIVE ParsedNames(_, _)
ParsedNames(raw_names, seen) ==
    IF raw_names = <<>> THEN <<>>
    ELSE LET name == parse_player_name(Head(raw_names))
         IN  IF name = <<>> \/ name[1] \in seen
             THEN ParsedNames(Tail(raw_names), seen)
             ELSE name \o ParsedNames(Tail(raw_names), seen \cup {name[1]})

\* What the team page yields: no page (HTTP error, markers missing), or the
\* names of its player links and reserve spans.
RosterPages ==
    {[ok |-> FALSE, names |-> <<>>]}
    \cup {[ok |-> TRUE, names |-> ns] :
              ns \in {<<>>, <<"Doe, Jane">>, <<"Doe, Jane", "Skinner, Jeff">>,
                      <<"Guy-Smith, New">>, <<"Doe, Jane", " Guy-Smith,  New ">>,
                      <<"JANE DOE", "Doe, Jane">>, <<"Skinner,">>}}

\* process_players: get_or_create_entity for each name, in order; an
\* existing row with the slug is kept as it is (its metadata is not
\* modelled).  The result is the table and the next id.
RECURSIVE process_players(_, _, _)
process_players(table, next_id, player_names) ==
    IF player_names = <<>> THEN [table |-> table, next_id |-> next_id]
    ELSE LET name == Head(player_names)
         IN  IF \E e \in table : SlugOf(e) = make_slug(name)
             THEN process_players(table, next_id, Tail(player_names))
             ELSE process_players(
                      table \cup {[id |-> next_id, name |-> name,
                                   entity_type |-> "player"]},
                      next_id + 1, Tail(player_names))

\* remove_departed_players: the rows of type player whose slug is not in
\* the set.
departed_players(table, current_roster_slugs) ==
    {e \in table : e.entity_type = "player" /\ SlugOf(e) \notin current_roster_slugs}

\* sync_sharks_roster: one transaction.  Without a roster the task returns
\* an error and changes nothing.
sync_sharks_roster(page) ==
    /\ seq.entity <= MaxEntityId
    /\ IF ~page.ok
       THEN UNCHANGED <<entity_table, cluster_entities, seq>>
       ELSE LET players == ParsedNames(page.names, {})
                processed == process_players(entity_table, seq.entity, players)
                current_roster_slugs == {make_slug(players[i]) : i \in DOMAIN players}
                removed == departed_players(processed.table, current_roster_slugs)
            IN  /\ entity_table' = processed.table \ removed
                /\ cluster_entities' =
                       {q \in cluster_entities : q[2] \notin {e.id : e \in removed}}
                /\ seq' = [seq EXCEPT !.entity = processed.next_id]
    /\ call' = [fn |-> "sync_sharks_roster", input |-> page]
    /\ UNCHANGED <<validation_logs, api, now, ticks, beats, sources, raw_items,
                   story_variants, clusters, cluster_variants, cluster_tags,
                   submissions, fetch_tasks, enrich_queue, wk, fetch_log,
                   enrich_log, ops>>


(***************************************************************************)
(* User submissions: main.submit_link and tasks/submissions.py.            *)
(***************************************************************************)
submission_rate_limit_per_ip == 10

SubmissionRow(url, ip) ==
    [id |-> seq.submission, url |-> url, submitter_ip |-> ip,
     status |-> "received", rejection_reason |-> NoneS, raw_item_id |-> NoneT,
     variant_id |-> NoneT, cluster_id |-> NoneT, created_at |-> now]

\* POST /submit/link: the rate limit, the row, the commit, the message.
submit_link(url, ip) ==
    /\ seq.submission <= MaxSubmissions
    /\ LET recent == {sb \in submissions : /\ sb.submitter_ip = ip
                                           /\ sb.created_at >= now - 1}
       IN  IF Cardinality(recent) >= submission_rate_limit_per_ip
           THEN UNCHANGED <<submissions, seq, sub_queue>>
           ELSE /\ submissions' = submissions \cup {SubmissionRow(url, ip)}
                /\ seq' = [seq EXCEPT !.submission = @ + 1]
                /\ sub_queue' = sub_queue \cup {seq.submission}
    /\ UNCHANGED <<side, now, ticks, beats, sources, raw_items,
                   story_variants, clusters, cluster_variants, cluster_entities,
                   cluster_tags, fetch_tasks, enrich_queue, wk, fetch_log,
                   enrich_log, maint_log>>

\* POST /submit/link served by one of several processes, lines 273-280: the
\* count of the rate limit is read in the request's own transaction.
submit_link_count(p, url, ip) ==
    /\ api[p].pc = "idle"
    /\ seq.submission <= MaxRequests
    /\ LET recent == {sb \in submissions : /\ sb.submitter_ip = ip
                                           /\ sb.created_at >= now - 1}
       IN  api' = [api EXCEPT ![p] = [pc |-> "counted", url |-> url, client_ip |-> ip,
                                      recent_submissions |-> Cardinality(recent)]]
    /\ UNCHANGED <<validation_logs, entity_table, call, now, ticks, beats,
                   tables, fetch_tasks, enrich_queue, wk, fetch_log, enrich_log,
                   ops>>

\* Lines 282-298: 429 if the count read reaches the limit; else the row,
\* the commit and the message.
submit_link_insert(p) ==
    /\ api[p].pc = "counted"
    /\ IF api[p].recent_submissions >= submission_rate_limit_per_ip
       THEN UNCHANGED <<submissions, seq, sub_queue>>
       ELSE /\ submissions' = submissions
                                  \cup {SubmissionRow(api[p].url, api[p].client_ip)}
            /\ seq' = [seq EXCEPT !.submission = @ + 1]
            /\ sub_queue' = sub_queue \cup {seq.submission}
    /\ api' = [api EXCEPT ![p] = ApiIdle]
    /\ UNCHANGED <<validation_logs, entity_table, call, now, ticks, beats,
                   sources, raw_items, story_variants, clusters,
                   cluster_variants, cluster_entities, cluster_tags,
                   fetch_tasks, enrich_queue, wk, fetch_log, enrich_log,
                   maint_log>>

SetSubmission(id, status, reason, raw_item_id) ==
    {IF sb.id = id
     THEN [sb EXCEPT !.status = status, !.rejection_reason = reason,
                     !.raw_item_id = raw_item_id]
     ELSE sb : sb \in submissions}

\* Lines 83 and 97-98: the status and the raw item; rejection_reason keeps
\* what it holds.
SetSubmissionStatus(id, status, raw_item_id) ==
    {IF sb.id = id
     THEN [sb EXCEPT !.status = status, !.raw_item_id = raw_item_id]
     ELSE sb : sb \in submissions}

\* What fetch_url_metadata can answer for a page: an exception, a dict
\* without a title, a dict with the page's title.
Metadata == {"error", NoneS, TitleSign}

\* process_submission, lines 32-81 up to db.add in create_raw_item.  The
\* duplicate branch assigns submission.story_variant_id, which is no column
\* of Submission (the column is variant_id), then reads
\* existing_variant.cluster_id, which StoryVariant rows loaded from the
\* table do not have: the handler of line 111 marks the submission rejected
\* and the task raises.
process_submission_start(w, id, meta) ==
    /\ wk[w].pc = "idle"
    /\ id \in sub_queue
    /\ meta \in Metadata
    /\ sub_queue' = sub_queue \ {id}
    /\ LET found == {sb \in submissions : sb.id = id}
           submission == CHOOSE sb \in found : TRUE
           normalized_url == normalize_url(submission.url)
           row == RawItemRow(0, NoneS, submission.url, meta, NoneS, NoneT)
       IN  IF found = {} THEN UNCHANGED <<submissions, wk>>
           ELSE IF \E v \in story_variants : v.url = normalized_url
           THEN /\ submissions' = SetSubmission(id, "rejected", "AttributeError",
                                                submission.raw_item_id)
                /\ UNCHANGED wk
           ELSE IF meta = "error"
           THEN /\ submissions' = SetSubmission(id, "rejected", "Failed to fetch URL",
                                                submission.raw_item_id)
                /\ UNCHANGED wk
           ELSE IF submission.url = NoUrl \/ ExistingRawItem(row)
           THEN /\ submissions' = SetSubmissionStatus(id, "duplicate",
                                                      submission.raw_item_id)
                /\ UNCHANGED wk
           ELSE /\ wk' = [wk EXCEPT ![w] = [Idle EXCEPT !.pc = "sub_add",
                                                        !.sub = id, !.row = row]]
                /\ UNCHANGED submissions
    /\ UNCHANGED <<side, now, ticks, beats, sources, raw_items,
                   story_variants, clusters, cluster_variants, cluster_entities,
                   cluster_tags, seq, fetch_tasks, enrich_queue, fetch_log,
                   enrich_log, maint_log>>

\* create_raw_item, line 281, for source_id = 0: the commit inserts the row
\* if the sources table has a row 0; otherwise the foreign key refuses it,
\* and the handler of line 111 marks the submission rejected.
process_submission_commit_row(w) ==
    /\ wk[w].pc = "sub_add"
    /\ IF wk[w].row.source_id \in DOMAIN sources
       THEN LET row == [wk[w].row EXCEPT !.id = seq.raw_item, !.created_at = now]
            IN  /\ raw_items' = raw_items \cup {row}
                /\ seq' = [seq EXCEPT !.raw_item = @ + 1]
                /\ wk' = [wk EXCEPT ![w].row = row, ![w].pc = "sub_enqueue",
                                    ![w].committed = TRUE]
                /\ UNCHANGED submissions
       ELSE /\ submissions' = SetSubmission(wk[w].sub, "rejected", "IntegrityError",
                                            NoneT)
            /\ wk' = [wk EXCEPT ![w] = Idle]
            /\ UNCHANGED <<raw_items, seq>>
    /\ UNCHANGED <<side, now, ticks, beats, sources, story_variants,
                   clusters, cluster_variants, cluster_entities, cluster_tags,
                   fetch_tasks, enrich_queue, fetch_log, enrich_log, ops>>

\* process_submission, lines 88-90: enrich_raw_item.delay(raw_item.id).
process_submission_enqueue(w) ==
    /\ wk[w].pc = "sub_enqueue"
    /\ enrich_queue' = enrich_queue \cup {wk[w].row.id}
    /\ wk' = [wk EXCEPT ![w].pc = "sub_finish"]
    /\ UNCHANGED <<side, now, ticks, beats, tables, fetch_tasks, fetch_log,
                   enrich_log, ops>>

\* process_submission, lines 96-99: the submission is published.
process_submission_finish(w) ==
    /\ wk[w].pc = "sub_finish"
    /\ submissions' = SetSubmissionStatus(wk[w].sub, "published", wk[w].row.id)
    /\ wk' = [wk EXCEPT ![w] = Idle]
    /\ UNCHANGED <<side, now, ticks, beats, sources, raw_items,
                   story_variants, clusters, cluster_variants, cluster_entities,
                   cluster_tags, seq, fetch_tasks, enrich_queue, fetch_log,
                   enrich_log, ops>>

\* The broker hands a process_submission message to a worker a second time
\* (a prefetched message whose visibility timeout ran out, a worker lost
\* before its acknowledgement): the message of a submission is in the queue
\* again.  The task has no guard on the submission's status.
redeliver_process_submission(id) ==
    /\ id \in {sb.id : sb \in submissions}
    /\ id \notin sub_queue
    /\ sub_queue' = sub_queue \cup {id}
    /\ UNCHANGED <<side, now, ticks, beats, tables, fetch_tasks, enrich_queue,
                   wk, fetch_log, enrich_log, maint_log>>


(***************************************************************************)
(* Specifications.                                                         *)
(***************************************************************************)
\* The feeds a fetch can return.
Feeds == SeqsUpTo(Entries, MaxFeedLen)

SubmitUrls == {Url(UrlA, <<>>, ""), Url(UrlC, <<<<"ref", "home">>>>, "")}

MergeInputs == SeqsUpTo(1..2, 2)

TickSteps == {1, 73, PurgeHours + 1}

\* Every operation, by any worker, in any interleaving.
Next ==
    \/ ingest_all_sources
    \/ \E s \in DOMAIN sources, st \in SourceStatuses : SetSourceStatus(s, st)
    \/ \E w \in Workers, t \in DOMAIN fetch_tasks : ingest_source_start(w, t)
    \/ \E w \in Workers, feed \in Feeds : rss_fetch_ok(w, feed)
    \/ \E w \in Workers : rss_fetch_fail(w)
    \/ \E w \in Workers : rss_entry_check(w)
    \/ \E w \in Workers : rss_commit_row(w)
    \/ \E w \in Workers : rss_enqueue(w)
    \/ \E w \in Workers : rss_finish(w)
    \/ \E w \in Workers : rss_except(w)
    \/ \E d \in TickSteps : Tick(d)
    \/ \E w \in Workers, id \in enrich_queue : enrich_start(w, id)
    \/ \E w \in Workers : enrich_match(w)
    \/ \E w \in Workers : enrich_link(w)
    \/ \E ids \in MergeInputs : merge_clusters(ids)
    \/ \E w \in Workers : purge_old_items_clusters(w)
    \/ \E w \in Workers : purge_old_items_raw(w)
    \/ \E url \in SubmitUrls : submit_link(url, "10.0.0.1")
    \/ \E w \in Workers, id \in sub_queue, meta \in Metadata :
           process_submission_start(w, id, meta)
    \/ \E w \in Workers : process_submission_commit_row(w)
    \/ \E w \in Workers : process_submission_enqueue(w)
    \/ \E w \in Workers : process_submission_finish(w)

Spec == Init /\ [][Next]_vars


\* One worker: the operations of the pipeline one after the other, on one
\* approved RSS source.
InitSeq ==
    /\ Init
    /\ DOMAIN sources = {1, 2}
    /\ sources[2].ingest_method = "rss"
    /\ sources[2].status = "candidate"

FeedsSeq == {<<EntryA1>>, <<EntryB1>>, <<EntryB2>>, <<EntryB1, EntryB2>>}

NextSeq ==
    \/ ingest_all_sources
    \/ \E t \in DOMAIN fetch_tasks : ingest_source_start("w1", t)
    \/ \E feed \in FeedsSeq : rss_fetch_ok("w1", feed)
    \/ rss_entry_check("w1")
    \/ rss_commit_row("w1")
    \/ rss_enqueue("w1")
    \/ rss_finish("w1")
    \/ \E d \in TickSteps \ {1} : wk["w1"].pc = "idle" /\ Tick(d)
    \/ \E id \in enrich_queue : enrich_start("w1", id)
    \/ enrich_match("w1")
    \/ enrich_link("w1")
    \/ \E ids \in MergeInputs : wk["w1"].pc = "idle" /\ merge_clusters(ids)
    \/ purge_old_items_clusters("w1")
    \/ purge_old_items_raw("w1")

SpecSeq == InitSeq /\ [][NextSeq]_vars


\* Two workers ingest and enrich concurrently: the two beats fan out two
\* fetches of the one approved source.
InitRace ==
    /\ Init
    /\ DOMAIN sources = {1, 2}
    /\ sources[2].ingest_method = "rss"
    /\ sources[2].status = "candidate"

FeedsRace == {<<EntryA1>>, <<EntryB1, EntryB2>>}

NextRace ==
    \/ ingest_all_sources
    \/ \E w \in Workers, t \in DOMAIN fetch_tasks : ingest_source_start(w, t)
    \/ \E w \in Workers, feed \in FeedsRace : rss_fetch_ok(w, feed)
    \/ \E w \in Workers : rss_entry_check(w)
    \/ \E w \in Workers : rss_commit_row(w)
    \/ \E w \in Workers : rss_enqueue(w)
    \/ \E w \in Workers : rss_finish(w)
    \/ \E w \in Workers, id \in enrich_queue : enrich_start(w, id)
    \/ \E w \in Workers : enrich_match(w)
    \/ \E w \in Workers : enrich_link(w)

SpecRace == InitRace /\ [][NextRace]_vars

\* The fetch tasks of the scheduler on two workers, with failing fetches,
\* operators changing the status of a source, and the clock.
InitFetch ==
    /\ Init
    /\ DOMAIN sources = {1, 2}
    /\ sources[2].ingest_method = "html"
    /\ sources[2].status = "approved"

FeedsFetch == {<<EntryA1>>, <<EntryC, EntryA2>>}

NextFetch ==
    \/ beats < MaxFetchBeats /\ ingest_all_sources
    \/ \E s \in DOMAIN sources, st \in SourceStatuses : SetSourceStatus(s, st)
    \/ \E w \in Workers, t \in DOMAIN fetch_tasks : ingest_source_start(w, t)
    \/ \E w \in Workers, feed \in FeedsFetch : rss_fetch_ok(w, feed)
    \/ \E w \in Workers : rss_fetch_fail(w)
    \/ \E w \in Workers : rss_entry_check(w)
    \/ \E w \in Workers : rss_commit_row(w)
    \/ \E w \in Workers : rss_enqueue(w)
    \/ \E w \in Workers : rss_finish(w)
    \/ \E w \in Workers : rss_except(w)
    \/ Tick(1)

SpecFetch == InitFetch /\ [][NextFetch]_vars

\* RSS ingest, submission processing and enrichment on two workers.
InitSubmit ==
    /\ Init
    /\ sources[2].ingest_method = "rss"
    /\ sources[2].status = "candidate"

NextSubmit ==
    \/ ingest_all_sources
    \/ \E w \in Workers, t \in DOMAIN fetch_tasks : ingest_source_start(w, t)
    \/ \E w \in Workers : rss_fetch_ok(w, <<EntryA1>>)
    \/ \E w \in Workers : rss_entry_check(w)
    \/ \E w \in Workers : rss_commit_row(w)
    \/ \E w \in Workers : rss_enqueue(w)
    \/ \E w \in Workers : rss_finish(w)
    \/ \E url \in SubmitUrls : submit_link(url, "10.0.0.1")
    \/ \E w \in Workers, id \in sub_queue, meta \in Metadata :
           process_submission_start(w, id, meta)
    \/ \E w \in Workers : process_submission_commit_row(w)
    \/ \E w \in Workers : process_submission_enqueue(w)
    \/ \E w \in Workers : process_submission_finish(w)
    \/ \E w \in Workers, id \in enrich_queue : enrich_start(w, id)
    \/ \E w \in Workers : enrich_match(w)
    \/ \E w \in Workers : enrich_link(w)

SpecSubmit == InitSubmit /\ [][NextSubmit]_vars

\* The relevance and matching functions called on their own (they read no
\* state of the pipeline, so the calls come first), then one worker ingests
\* and enriches a feed with an off-topic entry.
FeedsRelevance == {<<EntryTeamOnly, EntryA1>>, <<EntrySummary>>}

NextRelevance ==
    \/ beats < MaxFetchBeats /\ ingest_all_sources
    \/ \E t \in DOMAIN fetch_tasks : ingest_source_start("w1", t)
    \/ \E feed \in FeedsRelevance : rss_fetch_ok("w1", feed)
    \/ rss_entry_check("w1")
    \/ rss_commit_row("w1")
    \/ rss_enqueue("w1")
    \/ rss_finish("w1")
    \/ \E id \in enrich_queue : enrich_start("w1", id)
    \/ enrich_match("w1")
    \/ enrich_link("w1")
    \/ beats = 0 /\ \E outcome \in LlmOutcomes : check_relevance(outcome)
    \/ beats = 0 /\ \E text \in TextSamples : extract_entities_call(text)
    \/ beats = 0 /\ \E title \in TitleSamples, ids \in EntityIdSamples :
                        check_sharks_relevance_call(title, ids)

SpecRelevance == InitSeq /\ [][NextRelevance]_vars

\* The daily roster sync on one worker, after the worker has ingested and
\* enriched a feed: enrichment reads the entities as seeded, so it runs
\* before the first sync rewrites the table.
NextRoster ==
    \/ beats < MaxFetchBeats /\ ingest_all_sources
    \/ \E t \in DOMAIN fetch_tasks : ingest_source_start("w1", t)
    \/ \E feed \in {<<EntryA1>>} : rss_fetch_ok("w1", feed)
    \/ rss_entry_check("w1")
    \/ rss_commit_row("w1")
    \/ rss_enqueue("w1")
    \/ rss_finish("w1")
    \/ \E id \in enrich_queue : entity_table = entities /\ enrich_start("w1", id)
    \/ enrich_match("w1")
    \/ enrich_link("w1")
    \/ \E page \in RosterPages : wk["w1"].pc = "idle" /\ sync_sharks_roster(page)

SpecRoster == InitSeq /\ [][NextRoster]_vars

\* Submission processing on one worker where the broker may deliver a
\* message again.
NextRedeliver ==
    \/ ingest_all_sources
    \/ \E t \in DOMAIN fetch_tasks : ingest_source_start("w1", t)
    \/ rss_fetch_ok("w1", <<EntryA1>>)
    \/ rss_entry_check("w1")
    \/ rss_commit_row("w1")
    \/ rss_enqueue("w1")
    \/ rss_finish("w1")
    \/ \E url \in SubmitUrls : submit_link(url, "10.0.0.1")
    \/ \E id \in sub_queue, meta \in Metadata : process_submission_start("w1", id, meta)
    \/ process_submission_commit_row("w1")
    \/ process_submission_enqueue("w1")
    \/ process_submission_finish("w1")
    \/ \E id \in 1..MaxSubmissions : redeliver_process_submission(id)
    \/ \E id \in enrich_queue : enrich_start("w1", id)
    \/ enrich_match("w1")
    \/ enrich_link("w1")

SpecRedeliver == InitSubmit /\ [][NextRedeliver]_vars

\* POST /submit/link requests of one address served by two processes, while
\* the clock advances by hours.
NextLimit ==
    \/ \E p \in ApiProcesses : submit_link_count(p, Url(UrlA, <<>>, ""), "10.0.0.1")
    \/ \E p \in ApiProcesses : submit_link_insert(p)
    \/ Tick(1)

SpecLimit == InitSeq /\ [][NextLimit]_vars

\* Two approved RSS sources fetched by two workers, where the handling of an
\* entry can fail; the raw items are enriched.
InitEntryFail ==
    /\ Init
    /\ DOMAIN sources = {1, 2}
    /\ sources[2].ingest_method = "rss"
    /\ sources[2].status = "approved"

FeedsEntryFail == {<<EntryA1>>, <<EntryNoLink, EntryA1>>}

NextEntryFail ==
    \/ beats < MaxFetchBeats /\ ingest_all_sources
    \/ \E w \in Workers, t \in DOMAIN fetch_tasks : ingest_source_start(w, t)
    \/ \E w \in Workers, feed \in FeedsEntryFail : rss_fetch_ok(w, feed)
    \/ \E w \in Workers : rss_entry_check(w)
    \/ \E w \in Workers : rss_entry_fail(w)
    \/ \E w \in Workers : rss_commit_row(w)
    \/ \E w \in Workers : rss_enqueue(w)
    \/ \E w \in Workers : rss_finish(w)
    \/ \E w \in Workers : rss_except(w)
    \/ \E w \in Workers, id \in enrich_queue : enrich_start(w, id)
    \/ \E w \in Workers : enrich_match(w)
    \/ \E w \in Workers : enrich_link(w)

SpecEntryFail == InitEntryFail /\ [][NextEntryFail]_vars

\* A step of a task on worker w.  A Celery worker runs a task it has taken
\* to its end and takes a queued message when it is idle; that an entry
\* raises is a fault, which no scheduling brings about.
TaskStep(w) ==
    \/ \E t \in DOMAIN fetch_tasks : ingest_source_start(w, t)
    \/ \E feed \in FeedsEntryFail : rss_fetch_ok(w, feed)
    \/ rss_entry_check(w)
    \/ rss_commit_row(w)
    \/ rss_enqueue(w)
    \/ rss_finish(w)
    \/ rss_except(w)
    \/ \E id \in enrich_queue : enrich_start(w, id)
    \/ enrich_match(w)
    \/ enrich_link(w)

\* SpecEntryFail under fair scheduling of the tasks on each worker.
SpecEntryFailFair ==
    /\ InitEntryFail
    /\ [][NextEntryFail]_vars
    /\ \A w \in Workers : WF_vars(TaskStep(w))

\* Either the scoring is called on its own (it reads no state), or one
\* worker ingests and enriches feeds whose entries tell one story twice.
FeedsMatch == {<<EntryA1>>, <<EntryB1, EntryB2>>, <<EntryD1, EntryD2>>}

NextMatch ==
    \/ call = NoCall /\ ingest_all_sources
    \/ \E t \in DOMAIN fetch_tasks : ingest_source_start("w1", t)
    \/ \E feed \in FeedsMatch : rss_fetch_ok("w1", feed)
    \/ rss_entry_check("w1")
    \/ rss_commit_row("w1")
    \/ rss_enqueue("w1")
    \/ rss_finish("w1")
    \/ \E id \in enrich_queue : enrich_start("w1", id)
    \/ enrich_match("w1")
    \/ enrich_link("w1")
    \/ beats = 0 /\ \E ents \in EntityPairSamples, toks \in TokenPairSamples,
                       evs \in EventPairSamples : match_call(ents, toks, evs)

SpecMatch == InitSeq /\ [][NextMatch]_vars


(***************************************************************************)
(* Properties.                                                             *)
(***************************************************************************)
LinkedVariants(c) == {cv \in cluster_variants : cv.cluster_id = c.id}

\* C1: in every state reached by enrichments, merges and purges run one
\* after the other, the source_count of every cluster is the number of
\* cluster_variants rows of that cluster.
C1_SourceCountIsLinkCount ==
    \A c \in clusters : c.source_count = Cardinality(LinkedVariants(c))

\* A cluster made of a created cluster, an attached variant and a merged
\* cluster: three links, counted as three.
C1_Witness ==
    /\ [op |-> "merge", ok |-> TRUE] \in maint_log
    /\ \E c \in clusters :
           /\ c.source_count = 3
           /\ \E cv \in LinkedVariants(c) : cv.similarity_score < 100 * ScoreScale

VariantsOf(c) ==
    {v \in story_variants : \E cv \in LinkedVariants(c) : cv.variant_id = v.id}

\* C2: when enrichments on parallel workers attach variants to one
\* cluster, the cluster's tokens and entities_agg contain those of every
\* linked variant and its source_count counts every link.
C2_NoLostUpdate ==
    \A c \in clusters :
        /\ c.source_count = Cardinality(LinkedVariants(c))
        /\ \A v \in VariantsOf(c) :
               /\ Range(v.tokens) \subseteq Range(c.tokens)
               /\ Range(v.entities) \subseteq Range(c.entities_agg)

\* C3: every cluster has first_seen_at <= last_seen_at, whatever the
\* published timestamps of its variants.
C3_FirstSeenNotAfterLastSeen ==
    \A c \in clusters : c.first_seen_at <= c.last_seen_at


\* The claim's reading of "the same entry": the tracking parameters utm_*,
\* ref and fbclid and the fragment do not count.
IsTrackingKey(k) ==
    \/ Len(k) >= 4 /\ SubSeq(k, 1, 4) = "utm_"
    \/ k \in {"ref", "fbclid"}

StripTracking(url) ==
    Url(url.base, SelectSeq(url.query, LAMBDA kv : ~IsTrackingKey(kv[1])), "")

SameEntry(r1, r2) ==
    /\ r1.source_id = r2.source_id
    /\ r1.source_item_id = r2.source_item_id
    /\ r1.raw_title = r2.raw_title
    /\ StripTracking(r1.original_url) = StripTracking(r2.original_url)

\* C4: an RSS entry ingested twice in sequence, identical or differing only
\* in tracking parameters (utm_*, ref, fbclid) or in the fragment, leaves
\* one raw_items row.
C4_OneRowPerEntry ==
    \A r1, r2 \in raw_items : SameEntry(r1, r2) => r1 = r2


\* C5: at most one raw_items row per canonical_url, in every interleaving
\* of two workers running create_raw_item.
C5_OneRowPerCanonicalUrl ==
    \A r1, r2 \in raw_items : r1.canonical_url = r2.canonical_url => r1 = r2

\* C6: an enrichment that meets an existing story_variants url ends on a
\* duplicate path without raising.
C6_DuplicateUrlNotRaised ==
    \A e \in enrich_log : e.reason = "unique_url" => e.outcome = "returned"

\* C7: a fetch that succeeds leaves last_fetched_at at the time of the fetch
\* and fetch_error_count at 0; a fetch that fails leaves fetch_error_count
\* one higher and last_fetched_at unchanged; for every ingest method.
C7_FetchUpdatesSource ==
    \A r \in fetch_log :
        /\ r.outcome \in {"success", "returned"} => r.lf1 = r.at /\ r.err1 = 0
        /\ r.outcome = "failure" => r.err1 = r.err0 + 1 /\ r.lf1 = r.lf0

\* C8: a fetch task is executed at most max_retries + 1 = 4 times; its
\* retries are scheduled with the countdowns 60, 120, 240; a task that has
\* failed for good has run 4 times.
C8_BoundedBackoff ==
    \A t \in DOMAIN fetch_tasks :
        LET task == fetch_tasks[t]
        IN  /\ task.runs <= 4
            /\ Len(task.countdowns) <= 3
            /\ \A i \in DOMAIN task.countdowns :
                   task.countdowns[i] = <<60, 120, 240>>[i]
            /\ task.state = "failed" =>
                   task.runs = 4 /\ task.countdowns = <<60, 120, 240>>
            /\ Len(task.countdowns) = task.retries

\* A task whose fetch failed four times: three retries, then failed.
C8_Witness ==
    \E t \in DOMAIN fetch_tasks :
        /\ fetch_tasks[t].state = "failed"
        /\ fetch_tasks[t].runs = 4
        /\ fetch_tasks[t].countdowns = <<60, 120, 240>>

\* C9: every run of a fetch task, retries included, finds its source
\* approved when it starts.
C9_FetchOnlyApproved ==
    /\ \A r \in fetch_log : r.status0 = "approved"
    /\ \A w \in Workers :
           wk[w].pc \in {"rss_fetch", "rss_loop", "rss_add", "rss_enqueue",
                         "rss_except"} => wk[w].status0 = "approved"

\* C10: every enrich message in the broker names a committed raw_items
\* row, and no enrichment has found its row missing.
C10_EnqueuedAfterCommit ==
    /\ \A id \in enrich_queue : \E r \in raw_items : r.id = id
    /\ \A e \in enrich_log : e.reason # "raw_item_not_found"

\* A submitted item waits for enrichment and an item of the RSS source has
\* been enriched.
C10_Witness ==
    \E r0, r1 \in raw_items :
        /\ r0.source_id = 0 /\ r0.id \in enrich_queue
        /\ r1.source_id = 1 /\ \E e \in enrich_log : e.raw_id = r1.id

\* The enrichment runs that took a relevance decision: every run that got
\* past the loading of the raw item and of its source, for a source without
\* skip_relevance_check.
RelevanceChecks ==
    {e \in enrich_log :
        /\ e.reason \in {"not_sharks_relevant", "unique_url", "success", "stale_row"}
        /\ \E r \in raw_items :
               /\ r.id = e.raw_id
               /\ r.source_id \in DOMAIN sources
               /\ ~sources[r.source_id].skip_relevance_check}

\* C11: every relevance decision of an enrichment has written exactly one
\* validation_logs row for its raw item, with its method and its result, so
\* the table has as many rows as decisions were taken.
C11_OneLogPerRelevanceCheck ==
    /\ Cardinality(validation_logs) = Cardinality(RelevanceChecks)
    /\ \A e \in RelevanceChecks :
           \E v \in validation_logs :
               /\ v.raw_item_id = e.raw_id
               /\ v.method \in {"llm", "keyword", "skip"}
               /\ v.result = (IF e.reason = "not_sharks_relevant"
                              THEN "rejected" ELSE "approved")

\* The answers the claim calls failures: no answer, a status other than
\* 200, or a text that starts with neither YES nor NO.
LlmText(outcome) ==
    IF /\ outcome.kind = "response"
       /\ outcome.status_code = "200"
       /\ outcome.body.json = "object"
       /\ "response" \in DOMAIN outcome.body
       /\ outcome.body.response # <<>>
    THEN <<Upper(Strip(outcome.body.response[1]))>>
    ELSE <<>>

LlmSaysYes(outcome) ==
    LlmText(outcome) # <<>> /\ StartsWith(LlmText(outcome)[1], "YES")

LlmSaysNo(outcome) ==
    LlmText(outcome) # <<>> /\ StartsWith(LlmText(outcome)[1], "NO")

\* C12: check_relevance never raises; on a failure or an ambiguous text it
\* answers relevant with a non-empty error; it answers not relevant only for
\* a text that starts with NO, and then without an error.
C12_FailOpenWithError ==
    call.fn = "check_relevance" =>
        /\ ~call.result.raised
        /\ (~LlmSaysYes(call.input) /\ ~LlmSaysNo(call.input)) =>
               /\ call.result.is_relevant
               /\ call.result.error # <<>>
               /\ call.result.error # <<"">>
        /\ ~call.result.is_relevant =>
               LlmSaysNo(call.input) /\ call.result.error = <<>>

\* The topic keywords of the relevance filter: team, affiliate and arena.
TopicKeywords == {"sharks", "sj sharks", "barracuda", "sap center"}

HasTopicKeyword(title) == \E kw \in TopicKeywords : Contains(Lower(title), kw)

HasNonTeamEntity(entity_ids) ==
    \E i \in DOMAIN entity_ids :
        \E e \in entities : e.id = entity_ids[i] /\ e.entity_type # "team"

\* C13: the keyword check approves exactly the items whose title holds a
\* topic keyword or whose entity list holds a non-team entity; an enriched
\* item with neither is skipped as not relevant and gets no story variant.
C13_KeywordRelevance ==
    /\ call.fn = "check_sharks_relevance" =>
           (call.result <=> (\/ HasTopicKeyword(call.input.title)
                             \/ HasNonTeamEntity(call.input.entity_ids)))
    /\ \A e \in enrich_log : \A r \in raw_items :
           (/\ r.id = e.raw_id
            /\ e.reason \notin {"no_title", "no_source"}
            /\ ~HasTopicKeyword(r.raw_title)
            /\ ~HasNonTeamEntity(Enrichment(r.raw_title, r.raw_description).entity_ids))
           => /\ e.reason = "not_sharks_relevant"
              /\ ~\E v \in story_variants : v.raw_item_id = r.id

\* The team-only case, called and enriched: "Standings update" with the
\* team entity alone is rejected, and the entry with that title and the team
\* name in its description has been skipped.
C13_Witness ==
    /\ call = [fn |-> "check_sharks_relevance",
               input |-> [title |-> TitleOther, entity_ids |-> <<3>>],
               result |-> FALSE]
    /\ \E e \in enrich_log : \E r \in raw_items :
           /\ r.id = e.raw_id
           /\ r.raw_title = TitleOther
           /\ Enrichment(r.raw_title, r.raw_description).entity_ids = <<3>>
           /\ e.reason = "not_sharks_relevant"
    /\ \E e \in enrich_log : e.reason = "success"

\* The matching rules as section 4.D states them.
SpecBoundary == {" ", ",", ".", ":", ";", "!", "?", "'", "\"", "(", ")"}

MatchesWithBoundaries(term, text) ==
    \E i \in 1..(Len(text) - Len(term) + 1) :
        /\ SubSeq(text, i, i + Len(term) - 1) = term
        /\ i = 1 \/ Char(text, i - 1) \in SpecBoundary
        /\ i + Len(term) - 1 = Len(text) \/ Char(text, i + Len(term)) \in SpecBoundary

ContextKeywords == {"sharks", "sj sharks", "san jose", "barracuda", "sap center"}

ShouldMatch(e, text) ==
    LET tokens == SplitBlank(e.name, "")
        last == Lower(tokens[Len(tokens)])
    IN  \/ MatchesWithBoundaries(Lower(e.name), text)
        \/ /\ Len(tokens) > 1
           /\ Len(last) >= 5
           /\ last \notin COMMON_WORD_NAMES
           /\ MatchesWithBoundaries(last, text)
           /\ \E kw \in ContextKeywords : Contains(text, kw)

\* C14: extract_entities returns exactly the entities whose full name
\* matches with word boundaries or whose last name (of a name of several
\* tokens, 5 characters or more, not blocklisted) matches with word
\* boundaries in a text with a topic-context keyword; no id twice.
C14_ExtractEntitiesRules ==
    call.fn = "extract_entities" =>
        /\ \A i, j \in DOMAIN call.result :
               call.result[i] = call.result[j] => i = j
        /\ \A e \in EntitySamples :
               e.id \in Range(call.result) <=> ShouldMatch(e, Lower(call.input))

\* A last-name match kept by the topic gate, and one dropped without it.
C14_Witness ==
    \/ call = [fn |-> "extract_entities", input |-> "Skinner scores as Sharks win",
               result |-> <<2, 3>>]
    \/ call = [fn |-> "extract_entities",
               input |-> "Stuart Skinner stops 40 shots for Oilers",
               result |-> <<>>]

\* A call merge_clusters([T, S1, ..., Sn]) that is accepted: at least two
\* ids, all of existing clusters, the target not among the Si.
MergeAccepted(ids) ==
    /\ Len(ids) >= 2
    /\ \A i \in DOMAIN ids : ids[i] \in ClusterIds
    /\ ids[1] \notin Range(Tail(ids))

RECURSIVE SumOfCounts(_)
SumOfCounts(cs) ==
    IF cs = {} THEN 0
    ELSE LET c == CHOOSE x \in cs : TRUE
         IN  c.source_count + SumOfCounts(cs \ {c})

MergePostcondition(ids) ==
    LET T == ids[1]
        S == Range(Tail(ids))
        before == {c \in clusters : c.id \in Range(ids)}
        after == {c \in clusters' : c.id = T}
        target == CHOOSE c \in after : TRUE
    IN  /\ \A c \in clusters' : c.id \notin S
        /\ Cardinality(after) = 1
        /\ \A cv \in cluster_variants :
               cv.cluster_id \in S =>
                   [cv EXCEPT !.cluster_id = T] \in cluster_variants'
        /\ \A cv \in cluster_variants' : cv.cluster_id \notin S
        /\ target.source_count =
               Cardinality({cv \in cluster_variants' : cv.cluster_id = T})
        /\ target.source_count = SumOfCounts(before)
        /\ Range(target.tokens) = UNION {Range(c.tokens) : c \in before}
        /\ Range(target.entities_agg) = UNION {Range(c.entities_agg) : c \in before}
        /\ \A c \in before : target.first_seen_at <= c.first_seen_at
        /\ \E c \in before : target.first_seen_at = c.first_seen_at
        /\ \A c \in before : target.last_seen_at >= c.last_seen_at
        /\ \E c \in before : target.last_seen_at = c.last_seen_at
        /\ {q[2] : q \in {p \in cluster_tags' : p[1] = T}} =
               {q[2] : q \in {p \in cluster_tags : p[1] \in Range(ids)}}
        /\ {q[2] : q \in {p \in cluster_entities' : p[1] = T}} =
               {q[2] : q \in {p \in cluster_entities : p[1] \in Range(ids)}}
        /\ \A p \in cluster_tags' : p[1] \notin S
        /\ \A p \in cluster_entities' : p[1] \notin S

\* C15: every accepted merge_clusters([T, S1, ..., Sn]) deletes the Si,
\* repoints their cluster_variants rows to T, leaves T.source_count equal to
\* the number of T's rows and to the sum of the former counts, T.tokens and
\* T.entities_agg equal to the unions, T.first_seen_at the minimum and
\* T.last_seen_at the maximum, and T's tags and entities the union of the
\* merged clusters' tags and entities, each once.
C15_MergeResult ==
    [][\A ids \in MergeInputs :
           (MergeAccepted(ids) /\ merge_clusters(ids)) => MergePostcondition(ids)]_vars

\* Two clusters first seen at different times have been merged into one.
C15_Witness ==
    /\ [op |-> "merge", ok |-> TRUE] \in maint_log
    /\ Cardinality(clusters) = 1
    /\ \E c \in clusters :
           /\ c.first_seen_at < c.last_seen_at
           /\ Cardinality(LinkedVariants(c)) = 2
           /\ \A cv \in LinkedVariants(c) : cv.similarity_score = 100 * ScoreScale

\* The state a run of purge_old_items with a cutoff must leave behind.
PurgePostcondition(cutoff) ==
    LET raw_ids == {r.id : r \in raw_items'}
        variant_ids == {v.id : v \in story_variants'}
        cluster_ids == {c.id : c \in clusters'}
    IN  /\ \A c \in clusters' : c.last_seen_at >= cutoff
        /\ \A r \in raw_items' : r.created_at >= cutoff
        /\ \A v \in story_variants' : v.raw_item_id \in raw_ids
        /\ \A cv \in cluster_variants' :
               cv.cluster_id \in cluster_ids /\ cv.variant_id \in variant_ids
        /\ \A p \in cluster_tags' : p[1] \in cluster_ids
        /\ \A p \in cluster_entities' : p[1] \in cluster_ids
        /\ \A sb \in submissions' :
               /\ sb.raw_item_id = NoneT \/ sb.raw_item_id \in raw_ids
               /\ sb.cluster_id = NoneT \/ sb.cluster_id \in cluster_ids

\* C16: when a run of purge_old_items ends, no cluster last seen and no raw
\* item created before the cutoff remains, no row refers to a deleted row,
\* and the submissions' references to deleted rows are null.
C16_PurgeLeavesNothingOld ==
    [][\A w \in Workers :
           purge_old_items_raw(w) => PurgePostcondition(wk[w].cutoff)]_vars

\* The slugs of the roster a page yields.
RosterSlugs(page) ==
    LET players == ParsedNames(page.names, {})
    IN  {make_slug(players[i]) : i \in DOMAIN players}

RosterPostcondition(page) ==
    /\ \A e \in entity_table :
           (e.entity_type # "team" /\ SlugOf(e) \notin RosterSlugs(page))
               => /\ \A e2 \in entity_table' : e2.id # e.id
                  /\ \A q \in cluster_entities' : q[2] # e.id
    /\ \A slug \in RosterSlugs(page) : \E e \in entity_table' : SlugOf(e) = slug
    /\ \A e \in entity_table : e.entity_type = "team" => e \in entity_table'

\* C17: a roster sync that fetched a roster leaves no entity of a type other
\* than team whose slug is outside the roster's slugs, nor any
\* cluster_entities row of such an entity; every fetched name has an entity;
\* every team entity is still there.
C17_RosterSync ==
    [][\A page \in RosterPages :
           (page.ok /\ sync_sharks_roster(page)) => RosterPostcondition(page)]_vars


\* C18: a submission whose status is not received keeps its status in every
\* step of every operation, a second delivery of its task included.
C18_StatusTerminal ==
    [][\A sb \in submissions :
           sb.status # "received"
               => \A sb2 \in submissions' : sb2.id = sb.id => sb2.status = sb.status]_vars


\* C19: no address has more than submission_rate_limit_per_ip submissions
\* whose created_at lies within one hour: for every row, the rows of the same
\* address created in the hour up to it are at most the limit.
C19_RateLimit ==
    \A sb \in submissions :
        Cardinality({o \in submissions : /\ o.submitter_ip = sb.submitter_ip
                                         /\ o.created_at <= sb.created_at
                                         /\ o.created_at >= sb.created_at - 1})
            <= submission_rate_limit_per_ip


\* The variants whose URL is the normalized URL of submission id.
VariantsOfSubmission(id) ==
    {v \in story_variants :
        \E sb \in submissions : sb.id = id /\ v.url = normalize_url(sb.url)}

DuplicatePostcondition(id) ==
    /\ \E sb \in submissions' :
           /\ sb.id = id
           /\ sb.status = "duplicate"
           /\ \E v \in VariantsOfSubmission(id) :
                  /\ sb.variant_id = v.id
                  /\ \A cv \in cluster_variants :
                         cv.variant_id = v.id => sb.cluster_id = cv.cluster_id
    /\ raw_items' = raw_items
    /\ enrich_queue' = enrich_queue
    /\ \A w \in Workers : wk'[w].pc = wk[w].pc

\* C20: a run of process_submission on a submission whose normalized URL is
\* the URL of an existing story variant ends with the submission duplicate
\* and linked to that variant and its cluster, with no new raw item and no
\* enrichment message.
C20_DuplicateOfVariant ==
    [][\A w \in Workers, id \in 1..MaxSubmissions, meta \in Metadata :
           (VariantsOfSubmission(id) # {} /\ process_submission_start(w, id, meta))
               => DuplicatePostcondition(id)]_vars


\* The relevance check of lines 44-53 rejects raw item id: the item and its
\* source exist, the source does not skip the check, and the check on the
\* item's title and entities is negative.
RelevanceRejects(id) ==
    \E r \in raw_items :
        /\ r.id = id
        /\ r.raw_title # NoneS
        /\ r.source_id \in DOMAIN sources
        /\ ~sources[r.source_id].skip_relevance_check
        /\ ~Enrichment(r.raw_title, r.raw_description).relevant

\* C21: an enrich_raw_item run whose relevance check rejects the item
\* returns the skipped result (it does not raise), puts no message for the
\* item back in the queue, and leaves story_variants, clusters,
\* cluster_variants, cluster_entities and cluster_tags as they were.
C21_SkipLeavesTablesUnchanged ==
    [][\A w \in Workers : \A id \in 1..MaxRawItems :
           (RelevanceRejects(id) /\ enrich_start(w, id))
               => /\ EnrichLogRow(id, "returned", "not_sharks_relevant", 0, 0)
                          \in enrich_log'
                  /\ \A e \in enrich_log' \ enrich_log : e.outcome # "raised"
                  /\ id \notin enrich_queue'
                  /\ wk'[w].pc = "idle"
                  /\ UNCHANGED <<story_variants, clusters, cluster_variants,
                                 cluster_entities, cluster_tags>>]_vars

\* The off-topic entry has been skipped after the on-topic entry of the same
\* feed was clustered: the tables hold the one variant and its cluster.
C21_Witness ==
    /\ \E r \in raw_items :
           /\ RelevanceRejects(r.id)
           /\ EnrichLogRow(r.id, "returned", "not_sharks_relevant", 0, 0) \in enrich_log
    /\ Cardinality(story_variants) = 1
    /\ Cardinality(clusters) = 1
    /\ Cardinality(cluster_variants) = 1
    /\ enrich_queue = {}


\* C22: when a fetch run ends in the failure handler, no entry after the
\* failing one is left unprocessed (the failing entry itself is the head of
\* the entries still to do), and the fetch tasks of the other sources are as
\* they were.
C22_FailuresDoNotCascade ==
    [][\A w \in Workers :
           rss_except(w)
               => /\ Len(wk[w].entries) <= 1
                  /\ \A t \in DOMAIN fetch_tasks :
                         t # wk[w].task => fetch_tasks'[t] = fetch_tasks[t]]_vars


\* The cluster_variants rows an enrich_link step adds to clusters that were
\* there before the step (the attach path).
Attached == {cv \in cluster_variants' \ cluster_variants : cv.cluster_id \in ClusterIds}

ExactScore(E, T, K) == WeightE * E + WeightT * T + WeightK * K

PassesGates(E, T, K, entities_v) ==
    /\ IF Len(entities_v) > 0 THEN 2 * E >= ScoreScale ELSE 5 * T >= 2 * ScoreScale
    /\ ExactScore(E, T, K) >= 62 * ScoreScale

\* The candidates of a variant that pass both gates, with their S.
PassingCandidates(v) ==
    LET ents == filter_team_entities(entities, v.entities)
    IN  {c \in Candidates(v.event_type) :
            LET E == entity_overlap_score(
                         ents, filter_team_entities(entities, c.entities_agg))
                T == jaccard_similarity(v.tokens, c.tokens)
                K == event_compatibility_score(v.event_type, c.event_type)
            IN  PassesGates(E, T, K, ents)}

ExactScoreOf(v, c) ==
    ExactScore(entity_overlap_score(filter_team_entities(entities, v.entities),
                                    filter_team_entities(entities, c.entities_agg)),
               jaccard_similarity(v.tokens, c.tokens),
               event_compatibility_score(v.event_type, c.event_type))

\* C24: a candidate is a match exactly when it passes the entity gate and
\* the score gate; the cluster enrich chooses for a variant is a passing
\* candidate of the highest S, and a new cluster exactly when no candidate
\* passes; every recorded similarity_score is between 0 and 1.
C24_MatchIffGates ==
    /\ call.fn = "match" =>
           (call.result.match
                <=> PassesGates(call.result.E, call.result.T, call.result.K,
                                call.input.entities_v))
    /\ \A w \in Workers :
           wk[w].pc = "link" =>
               LET v == wk[w].variant
                   passing == PassingCandidates(v)
               IN  IF passing = {} THEN wk[w].best = NoRow
                   ELSE /\ wk[w].best # NoRow
                        /\ \E c \in passing : c.id = wk[w].best.id
                        /\ \A c \in passing :
                               ExactScoreOf(v, c) <= ExactScoreOf(v, wk[w].best)
    /\ \A cv \in cluster_variants :
           cv.similarity_score >= 0 /\ cv.similarity_score <= 100 * ScoreScale


\* The published timestamps of the variants linked to cluster id after the
\* step.
PublishedOfMembers(id) ==
    {v.published_at : v \in {sv \in story_variants' :
        \E cv \in cluster_variants' : cv.cluster_id = id /\ cv.variant_id = sv.id}}

\* C25: after an enrich step attached a variant to an existing cluster, the
\* cluster's first_seen_at is the earliest and its last_seen_at the latest
\* published timestamp of its member variants.
C25_TimestampsFromMembers ==
    [][\A w \in Workers :
           enrich_link(w)
               => \A cv \in Attached : \A c \in clusters' :
                      c.id = cv.cluster_id
                          => /\ c.first_seen_at \in PublishedOfMembers(c.id)
                             /\ c.last_seen_at \in PublishedOfMembers(c.id)
                             /\ \A t \in PublishedOfMembers(c.id) :
                                    c.first_seen_at <= t /\ t <= c.last_seen_at]_vars

\* The cluster a create step of worker w adds.
OpenedBy(w) ==
    {c \in clusters' : c.id \notin ClusterIds /\ wk[w].best = NoRow}

\* C26: when enrich opens a new cluster for a variant, the cluster has the
\* variant's title as headline, the event type the classifier returns for
\* that title, first_seen_at = last_seen_at = the variant's published
\* timestamp, the variant's tokens and entities, source_count 1, exactly one
\* ClusterVariant row, which links the variant, and one ClusterEntity row
\* per entity of the variant.
C26_NewClusterFromVariant ==
    [][\A w \in Workers :
           (enrich_link(w) /\ wk[w].best = NoRow)
               => LET v == wk[w].variant
                  IN  /\ Cardinality(OpenedBy(w)) = 1
                      /\ \A c \in OpenedBy(w) :
                             /\ c.headline = v.title
                             /\ c.event_type = classify_event_type(v.title)
                             /\ c.first_seen_at = v.published_at
                             /\ c.last_seen_at = v.published_at
                             /\ c.tokens = v.tokens
                             /\ c.entities_agg = v.entities
                             /\ c.source_count = 1
                             /\ {cv \in cluster_variants' : cv.cluster_id = c.id}
                                    = {ClusterVariantRow(c.id, v.id, 100 * ScoreScale)}
                             /\ {p \in cluster_entities' : p[1] = c.id}
                                    = {<<c.id, e>> : e \in Range(v.entities)}]_vars

\* C27: with the default thresholds a variant without a non-team entity is
\* never attached to an existing cluster, whatever its tokens and event
\* type: its E is 0, its S at most 0.35 + 0.10 = 0.45, below 0.62, so no
\* candidate is a match and enrich opens a new cluster for it.
C27_NoEntityNeverAttached ==
    /\ (call.fn = "match" /\ call.input.entities_v = <<>>) =>
           /\ call.result.E = 0
           /\ call.result.S <= 45 * ScoreScale
           /\ call.result.S < cluster_similarity_threshold * ScoreScale
           /\ ~call.result.match
    /\ \A w \in Workers :
           (/\ wk[w].pc = "link"
            /\ filter_team_entities(entities, wk[w].variant.entities) = <<>>)
               => wk[w].best = NoRow
    /\ \A cv \in cluster_variants : \A v \in story_variants :
           (/\ cv.variant_id = v.id
            /\ filter_team_entities(entities, v.entities) = <<>>)
               => /\ cv.similarity_score = 100 * ScoreScale
                  /\ \A other \in cluster_variants :
                         other.cluster_id = cv.cluster_id => other = cv

\* Two reports with the same tokens and event type and only the team as
\* entity, each in a cluster of its own.
C27_Witness ==
    \E c1, c2 \in clusters :
        /\ c1.id # c2.id
        /\ c1.headline = TitleTeam /\ c2.headline = TitleTeam
        /\ c1.event_type = c2.event_type
        /\ jaccard_similarity(c1.tokens, c2.tokens) = ScoreScale
        /\ c1.entities_agg # <<>>
        /\ filter_team_entities(entities, c1.entities_agg) = <<>>
        /\ c1.source_count = 1 /\ c2.source_count = 1
        /\ c2 \in Candidates(c1.event_type)

\* The variants whose enrich task is still between the commit of the variant
\* and the end of match_or_create_cluster.
InClustering == {wk[w].variant.id : w \in {x \in Workers : wk[x].pc \in {"match", "link"}}}

LinksOf(v) == {cv \in cluster_variants : cv.variant_id = v.id}

\* C28: every StoryVariant whose enrich task has terminated, with success or
\* with an error during clustering, is linked to exactly one Cluster by
\* exactly one ClusterVariant row, in every state enrich, merge and purge
\* reach.
C28_VariantInOneCluster ==
    \A v \in story_variants :
        v.id \notin InClustering
            => /\ Cardinality(LinksOf(v)) = 1
               /\ \A cv \in LinksOf(v) : cv.cluster_id \in ClusterIds

\* C30: merge_clusters never deletes its target: after every accepted call
\* with at least two ids of existing clusters, the cluster ids[0] still
\* exists and holds the variants of the merged clusters, also when ids[0]
\* occurs again later in the list.
C30_MergeKeepsTarget ==
    [][\A ids \in MergeInputs :
           (/\ Len(ids) >= 2
            /\ \A i \in DOMAIN ids : ids[i] \in ClusterIds
            /\ merge_clusters(ids))
               => /\ \E c \in clusters' : c.id = ids[1]
                  /\ \A cv \in cluster_variants :
                         cv.cluster_id \in Range(ids)
                             => [cv EXCEPT !.cluster_id = ids[1]] \in cluster_variants']_vars

\* The raw item id is a committed row of raw_items.
Committed(id) == \E r \in raw_items : r.id = id

\* An enrich task has run on the raw item id to its end: it made a variant,
\* skipped the item, or raised.
Handled(id) == \E e \in enrich_log : e.raw_id = id

\* C29: every RawItem a fetch commits is eventually handled by an enrich
\* task, under fair scheduling of the tasks, also when the fetch task fails
\* after it committed the row and is retried later.
C29_CommittedEventuallyEnriched ==
    \A id \in 1..MaxRawItems : Committed(id) ~> Handled(id)


====
